---- MODULE Spec2Model ----
(***************************************************************************)
(* Rudis: the shared typed keyspace (database/), the command handlers      *)
(* (commands/) and the connections that execute them.                      *)
(*                                                                         *)
(* Bytes are sequences of one-character strings, so that decimal           *)
(* formatting and parsing are computed digit by digit.  i64 arithmetic is  *)
(* modelled at width IntBits.  An arithmetic overflow panics in a build    *)
(* with overflow checks and wraps in a build without them; the build is    *)
(* chosen in Init (overflow_checks).                                       *)
(***************************************************************************)
EXTENDS Integers, Sequences, FiniteSets, TLC

----------------------------------------------------------------------------
(* Bounds of the model *)

NumConns == 2
DbNum == 2
IntBits == 4
MaxOps == 3
MaxNow == 2

(* Program constants *)

SelectMaxIndex == 15
MillisPerSecond == 1000
U8Max == 255

Conns == 1 .. NumConns
DbIds == 0 .. (DbNum - 1)

I64_MAX == (2 ^ (IntBits - 1)) - 1
I64_MIN == 0 - (2 ^ (IntBits - 1))

K1 == <<"k">>
K2 == <<"j">>
K3 == <<"i">>
Keys == {K1, K2}

----------------------------------------------------------------------------
(* Decimal formatting and parsing *)

DigitChars == <<"0", "1", "2", "3", "4", "5", "6", "7", "8", "9">>

IsDigit(ch) == \E i \in 1 .. 10 : DigitChars[i] = ch

DigitVal(ch) == (CHOOSE i \in 1 .. 10 : DigitChars[i] = ch) - 1

RECURSIVE FmtNat(_)
FmtNat(n) ==
  IF n < 10 THEN <<DigitChars[n + 1]>>
  ELSE FmtNat(n \div 10) \o <<DigitChars[(n % 10) + 1]>>

(* i64::to_string *)
to_string(n) == IF n < 0 THEN <<"-">> \o FmtNat(0 - n) ELSE FmtNat(n)

RECURSIVE DigitsValue(_, _)
DigitsValue(s, acc) ==
  IF s = <<>> THEN acc ELSE DigitsValue(Tail(s), (acc * 10) + DigitVal(Head(s)))

Ok(v) == [ok |-> TRUE, v |-> v]
Err(e) == [ok |-> FALSE, e |-> e]

(* str::parse for an integer type with range lo..hi: an optional sign,    *)
(* then one or more digits; a value out of range is an error.             *)
ParseInt(s, lo, hi) ==
  LET signed == s # <<>> /\ Head(s) \in {"+", "-"}
      digits == IF signed THEN Tail(s) ELSE s
      neg == signed /\ Head(s) = "-"
  IN  IF digits = <<>> \/ (\E i \in 1 .. Len(digits) : ~IsDigit(digits[i]))
        THEN Err("ParseIntError")
      ELSE LET mag == DigitsValue(digits, 0)
               n == IF neg THEN 0 - mag ELSE mag
           IN  IF n < lo \/ n > hi THEN Err("ParseIntError") ELSE Ok(n)

parse_i64(s) == ParseInt(s, I64_MIN, I64_MAX)
parse_u8(s) == ParseInt(s, 0, U8Max)
parse_u64(s) == ParseInt(s, 0, (2 * I64_MAX) + 1)

----------------------------------------------------------------------------
(* i64 arithmetic *)

InRange(n) == n >= I64_MIN /\ n <= I64_MAX

Wrap(n) == ((n - I64_MIN) % (2 ^ IntBits)) + I64_MIN

(* The result of an unchecked `a + b` / `-a`: the exact value when it      *)
(* fits, otherwise a panic (checks = TRUE) or the wrapped value.           *)
Arith(exact, checks) ==
  IF InRange(exact) THEN [panic |-> FALSE, v |-> exact]
  ELSE IF checks THEN [panic |-> TRUE]
  ELSE [panic |-> FALSE, v |-> Wrap(exact)]

----------------------------------------------------------------------------
(* CommandError and the reply frames *)

WrongType == <<"WRONGTYPE", "Operation against a key holding the wrong kind of value">>
InvalidInteger == <<"ERR", "value is not an integer or out of range">>
InvalidInsertDirection == <<"ERR", "only BEFORE|AFTER allowed for LINSERT">>
PivotNotFound == <<"ERR", "pivot not found in list">>
UnknownCommand == <<"ERR", "unknown command">>
WrongNumberOfArguments == <<"ERR", "wrong number of arguments for command">>
(* the variant database/keys.rs returns for a pattern Regex::new rejects *)
InvalidPattern == <<"InvalidPattern">>
InvalidFloat == <<"ERR", "value is not a valid float">>
InvalidDbIndex == <<"ERR", "invalid DB index">>

format_integer(n) == [t |-> "integer", n |-> n]
format_bulk_string(b) == [t |-> "bulk", b |-> b]
format_null == [t |-> "null"]
format_simple_string(s) == [t |-> "simple", s |-> s]
format_error(e) == [t |-> "error", line |-> <<"ERR">> \o e]

format_array_bytes(elements) == [t |-> "array", elements |-> elements]

NoReply == [t |-> "none"]

----------------------------------------------------------------------------
(* RedisValue and one database's map *)

String(s) == [tag |-> "string", s |-> s]
Hash(h) == [tag |-> "hash", h |-> h]
List(l) == [tag |-> "list", l |-> l]
Set(m) == [tag |-> "set", m |-> m]
SortedSet(z) == [tag |-> "zset", z |-> z]

EmptyMap == [x \in {} |-> 0]

insert(m, k, v) == [x \in (DOMAIN m) \cup {k} |-> IF x = k THEN v ELSE m[x]]
remove(m, k) == [x \in (DOMAIN m) \ {k} |-> m[x]]
contains_key(m, k) == k \in DOMAIN m

Some(v) == [some |-> TRUE, v |-> v]
None == [some |-> FALSE]

----------------------------------------------------------------------------
(* StringOp for Database: each operator takes one database's map and       *)
(* returns the new map and the return value.                               *)

get(m, key) ==
  IF contains_key(m, key)
    THEN IF m[key].tag = "string" THEN Some(m[key].s) ELSE None
    ELSE None

(* set that keeps a value of another type in place *)
set_keeps_other_types(m, key, value) ==
  IF contains_key(m, key)
    THEN IF m[key].tag = "string" THEN [m EXCEPT ![key] = String(value)] ELSE m
    ELSE insert(m, key, String(value))

set(m, key, value) ==
  IF contains_key(m, key)
    THEN IF m[key].tag = "string"
           THEN [m EXCEPT ![key] = String(value)]
           ELSE insert(m, key, String(value))
    ELSE insert(m, key, String(value))

RECURSIVE del(_, _)
(* del that counts every named key, present or not *)
del_counts_names(m, keys) ==
  [m |-> [k \in (DOMAIN m) \ {keys[i] : i \in 1 .. Len(keys)} |-> m[k]],
   ret |-> Len(keys)]

del(m, keys) ==
  IF keys = <<>> THEN [m |-> m, ret |-> 0]
  ELSE LET hit == contains_key(m, Head(keys))
           rest == del(remove(m, Head(keys)), Tail(keys))
       IN  [m |-> rest.m, ret |-> rest.ret + (IF hit THEN 1 ELSE 0)]

append(m, key, value) ==
  IF contains_key(m, key)
    THEN IF m[key].tag = "string"
           THEN [m |-> [m EXCEPT ![key] = String(m[key].s \o value)],
                 ret |-> Len(m[key].s \o value)]
           ELSE [m |-> insert(m, key, String(value)), ret |-> Len(value)]
    ELSE [m |-> insert(m, key, String(value)), ret |-> Len(value)]

str_len(m, key) ==
  IF contains_key(m, key)
    THEN IF m[key].tag = "string" THEN Len(m[key].s) ELSE 0
    ELSE 0

(* Database::add_value, the branch taken under the entry guard of an       *)
(* existing key.                                                           *)
add_value_entry(m, key, val, checks) ==
  IF m[key].tag = "string"
    THEN LET p == parse_i64(m[key].s)
         IN  IF p.ok
               THEN LET a == Arith(p.v + val, checks)
                    IN  IF a.panic THEN [panic |-> TRUE]
                        ELSE [panic |-> FALSE,
                              m |-> [m EXCEPT ![key] = String(to_string(a.v))],
                              ret |-> Ok(a.v)]
               ELSE [panic |-> FALSE, m |-> m, ret |-> Err(InvalidInteger)]
    ELSE [panic |-> FALSE, m |-> m, ret |-> Err(WrongType)]

(* Database::add_value, the branch for a key that get_mut did not find.    *)
add_value_insert(m, key, val) ==
  [m |-> insert(m, key, String(to_string(val))), ret |-> Ok(val)]

(* Database::data_type *)
data_type(m, key) == IF contains_key(m, key) THEN m[key].tag ELSE "none"

----------------------------------------------------------------------------
(* KeyOp for Database *)

RECURSIVE exist(_, _)
exist(m, keys) ==
  IF keys = <<>> THEN 0
  ELSE (IF contains_key(m, Head(keys)) THEN 1 ELSE 0) + exist(m, Tail(keys))

(* expire: the deadline is SystemTime::now() + seconds *)
expire(x, key, seconds, clock) == insert(x, key, clock + seconds)

ttl(x, key, clock) ==
  IF contains_key(x, key)
    THEN IF x[key] >= clock THEN x[key] - clock ELSE 0 - 2
    ELSE 0 - 1

(* flush_all clears the maps of the current database *)
flush_all(all, cur) == [all EXCEPT ![cur] = EmptyMap]

(* flush_db clears the maps of every database *)
flush_db(all, cur) == [d \in DOMAIN all |-> EmptyMap]

(* select: an index that names no database is ignored *)
select(cur, db) == IF db >= DbNum THEN cur ELSE db

----------------------------------------------------------------------------
(* HashOp, SetOp, ListOp and SortedSetOp for Database *)

(* RedisHash::hset *)
hash_hset(h, field, value) ==
  [h |-> insert(h, field, value), ret |-> IF contains_key(h, field) THEN 0 ELSE 1]

hset(m, hash, field, value) ==
  IF contains_key(m, hash)
    THEN IF m[hash].tag = "hash"
           THEN LET r == hash_hset(m[hash].h, field, value)
                IN  [m |-> [m EXCEPT ![hash] = Hash(r.h)], ret |-> Ok(r.ret)]
           ELSE [m |-> m, ret |-> Err(WrongType)]
    ELSE [m |-> insert(m, hash, Hash(hash_hset(EmptyMap, field, value).h)),
          ret |-> Ok(1)]

hget(m, hash, field) ==
  IF contains_key(m, hash)
    THEN IF m[hash].tag = "hash"
           THEN Ok(IF contains_key(m[hash].h, field)
                     THEN Some(m[hash].h[field]) ELSE None)
           ELSE Err(WrongType)
    ELSE Ok(None)

RECURSIVE hash_hdel_each(_, _)
(* hdel that counts every named field, present or not *)
hash_hdel_counts_names(h, fields) ==
  [h |-> [f \in (DOMAIN h) \ {fields[i] : i \in 1 .. Len(fields)} |-> h[f]],
   ret |-> Len(fields)]

(* the filter of hdel_multiple: RedisHash::hdel on each field in turn *)
hash_hdel_each(h, fields) ==
  IF fields = <<>> THEN [h |-> h, ret |-> 0]
  ELSE LET hit == contains_key(h, Head(fields))
           rest == hash_hdel_each(remove(h, Head(fields)), Tail(fields))
       IN  [h |-> rest.h, ret |-> rest.ret + (IF hit THEN 1 ELSE 0)]

hdel_multiple(m, hash, fields) ==
  IF contains_key(m, hash)
    THEN IF m[hash].tag = "hash"
           THEN LET r == hash_hdel_each(m[hash].h, fields)
                IN  [m |-> [m EXCEPT ![hash] = Hash(r.h)], ret |-> r.ret]
           ELSE [m |-> m, ret |-> 0]
    ELSE [m |-> m, ret |-> 0]

(* RedisHash::hincrby *)
hash_hincrby(h, field, value, checks) ==
  LET cur == IF contains_key(h, field) THEN parse_i64(h[field]) ELSE Ok(0)
  IN  IF cur.ok
        THEN LET a == Arith(cur.v + value, checks)
             IN  IF a.panic THEN [panic |-> TRUE]
                 ELSE [panic |-> FALSE, h |-> insert(h, field, to_string(a.v)),
                       ret |-> Ok(a.v)]
        ELSE [panic |-> FALSE, h |-> h, ret |-> Err(InvalidInteger)]

hincrby(m, hash, field, value, checks) ==
  IF contains_key(m, hash)
    THEN IF m[hash].tag = "hash"
           THEN LET r == hash_hincrby(m[hash].h, field, value, checks)
                IN  IF r.panic THEN [panic |-> TRUE]
                    ELSE [panic |-> FALSE, m |-> [m EXCEPT ![hash] = Hash(r.h)],
                          ret |-> r.ret]
           ELSE [panic |-> FALSE, m |-> m, ret |-> Err(WrongType)]
    ELSE LET r == hash_hincrby(EmptyMap, field, value, checks)
         IN  IF r.panic THEN [panic |-> TRUE]
             ELSE IF r.ret.ok
               THEN [panic |-> FALSE, m |-> insert(m, hash, Hash(r.h)), ret |-> r.ret]
               ELSE [panic |-> FALSE, m |-> m, ret |-> r.ret]

RECURSIVE set_sadd_each(_, _)
set_sadd_each(members, values) ==
  IF values = <<>> THEN [s |-> members, ret |-> 0]
  ELSE LET new == Head(values) \notin members
           rest == set_sadd_each(members \cup {Head(values)}, Tail(values))
       IN  [s |-> rest.s, ret |-> rest.ret + (IF new THEN 1 ELSE 0)]

sadd(m, key, values) ==
  IF contains_key(m, key)
    THEN IF m[key].tag = "set"
           THEN LET r == set_sadd_each(m[key].m, values)
                IN  [m |-> [m EXCEPT ![key] = Set(r.s)], ret |-> r.ret]
           ELSE [m |-> m, ret |-> 0]
    ELSE LET r == set_sadd_each({}, values)
         IN  [m |-> insert(m, key, Set(r.s)), ret |-> r.ret]

(* RedisSet::smembers: the members once each, in the HashSet's iteration   *)
(* order, which is any order                                               *)
set_smembers(members) ==
  {f \in [1 .. Cardinality(members) -> members] :
     \A i, j \in 1 .. Cardinality(members) : f[i] = f[j] => i = j}

Elements(v) == {v[i] : i \in 1 .. Len(v)}

(* String::from_utf8_lossy: ASCII bytes are kept, any other byte becomes   *)
(* U+FFFD                                                                 *)
from_utf8_lossy(b) == [i \in 1 .. Len(b) |-> IF b[i] = "\\xFF" THEN "\\uFFFD" ELSE b[i]]

RECURSIVE replace_star(_)
(* str::replace("*", ".*") *)
replace_star(p) ==
  IF p = <<>> THEN <<>>
  ELSE (IF Head(p) = "*" THEN <<".", "*">> ELSE <<Head(p)>>) \o replace_star(Tail(p))

RECURSIVE regex_parse(_, _)
(* Regex::new on a pattern of literals, '.', '*' and '?': the items read  *)
(* so far are acc; a repetition operator with nothing before it is an     *)
(* error, one after another repetition applies to that repetition         *)
regex_parse(p, acc) ==
  IF p = <<>> THEN Ok(acc)
  ELSE IF Head(p) \in {"*", "?"}
    THEN IF acc = <<>> THEN Err(InvalidPattern)
         ELSE LET last == acc[Len(acc)]
                  rep == [last EXCEPT !.opt = TRUE, !.many = last.many \/ Head(p) = "*"]
              IN  regex_parse(Tail(p), [acc EXCEPT ![Len(acc)] = rep])
    ELSE regex_parse(Tail(p), Append(acc, [any |-> Head(p) = ".", ch |-> Head(p),
                                           opt |-> FALSE, many |-> FALSE]))

RECURSIVE regex_match_at(_, _, _, _)
(* whether the items from k on match some substring of s that starts at i *)
regex_match_at(re, k, s, i) ==
  IF k > Len(re) THEN TRUE
  ELSE LET fits == i <= Len(s) /\ (re[k].any \/ s[i] = re[k].ch)
       IN  \/ re[k].opt /\ regex_match_at(re, k + 1, s, i)
           \/ fits /\ regex_match_at(re, k + 1, s, i + 1)
           \/ fits /\ re[k].many /\ regex_match_at(re, k, s, i + 1)

(* Regex::is_match: a match may start anywhere and end anywhere *)
is_match(re, s) == \E i \in 1 .. Len(s) + 1 : regex_match_at(re, 1, s, i)

(* KeyOp::keys: v is the set of vectors the call can return, one for each *)
(* order the iteration of the map can yield                               *)
keyop_keys(m, pattern) ==
  IF pattern = <<"*">> THEN Ok(set_smembers(DOMAIN m))
  ELSE LET re == regex_parse(replace_star(from_utf8_lossy(pattern)), <<>>)
       IN  IF re.ok
             THEN Ok(set_smembers({k \in DOMAIN m : is_match(re.v, from_utf8_lossy(k))}))
             ELSE Err(InvalidPattern)

(* SetOp::smembers: v is the set of vectors the call can return *)
smembers(m, key) ==
  IF contains_key(m, key)
    THEN IF m[key].tag = "set" THEN Ok(set_smembers(m[key].m)) ELSE Err(WrongType)
    ELSE Err(WrongType)

RECURSIVE sinter(_, _)
(* SetOp::sinter: pushes the members of every named set onto one vector *)
sinter(m, keys) ==
  IF keys = <<>> THEN Ok({<<>>})
  ELSE IF contains_key(m, Head(keys))
    THEN IF m[Head(keys)].tag = "set"
           THEN LET rest == sinter(m, Tail(keys))
                IN  IF rest.ok
                      THEN Ok({a \o b : a \in set_smembers(m[Head(keys)].m), b \in rest.v})
                      ELSE rest
           ELSE Err(WrongType)
    ELSE Err(WrongType)

(* SetOp::sunion: the vector of sinter collected into a HashSet *)
sunion(m, keys) ==
  LET r == sinter(m, keys)
  IN  IF r.ok THEN Ok(UNION {set_smembers(Elements(v)) : v \in r.v}) ELSE r

(* SetOp::sdiff: the members of keys[0] less those of sunion(keys[1..]) *)
sdiff(m, keys) ==
  LET first == smembers(m, Head(keys))
  IN  IF first.ok
        THEN LET others == sunion(m, Tail(keys))
             IN  IF others.ok
                   THEN Ok(UNION {set_smembers(Elements(a) \ Elements(b)) :
                                    a \in first.v, b \in others.v})
                   ELSE others
        ELSE first

RECURSIVE set_srem_each(_, _)
set_srem_each(members, values) ==
  IF values = <<>> THEN [s |-> members, ret |-> 0]
  ELSE LET hit == Head(values) \in members
           rest == set_srem_each(members \ {Head(values)}, Tail(values))
       IN  [s |-> rest.s, ret |-> rest.ret + (IF hit THEN 1 ELSE 0)]

srem(m, key, values) ==
  IF contains_key(m, key)
    THEN IF m[key].tag = "set"
           THEN LET r == set_srem_each(m[key].m, values)
                IN  [m |-> [m EXCEPT ![key] = Set(r.s)], ret |-> r.ret]
           ELSE [m |-> m, ret |-> 0]
    ELSE [m |-> m, ret |-> 0]

RECURSIVE list_lpush_each(_, _)
list_lpush_each(items, values) ==
  IF values = <<>> THEN items
  ELSE list_lpush_each(<<Head(values)>> \o items, Tail(values))

lpush(m, key, values) ==
  IF contains_key(m, key)
    THEN IF m[key].tag = "list"
           THEN [m |-> [m EXCEPT ![key] = List(list_lpush_each(m[key].l, values))],
                 ret |-> Len(values)]
           ELSE [m |-> m, ret |-> 0]
    ELSE [m |-> m, ret |-> 0]

RECURSIVE list_rpush_each(_, _)
list_rpush_each(items, values) ==
  IF values = <<>> THEN items
  ELSE list_rpush_each(items \o <<Head(values)>>, Tail(values))

rpush(m, key, values) ==
  IF contains_key(m, key)
    THEN IF m[key].tag = "list"
           THEN [m |-> [m EXCEPT ![key] = List(list_rpush_each(m[key].l, values))],
                 ret |-> Len(values)]
           ELSE [m |-> m, ret |-> 0]
    ELSE [m |-> m, ret |-> 0]

----------------------------------------------------------------------------
(* RedisList: the methods over `items`, a VecDeque                         *)

Max(a, b) == IF a >= b THEN a ELSE b
Min(a, b) == IF a <= b THEN a ELSE b

(* `n as usize` for an i64 n: usize has the width of i64 *)
AsUsize(n) == n % (2 ^ IntBits)

(* VecDeque::range(a..b) for a < b: out of bounds is a panic *)
deque_range(q, a, b) ==
  IF b <= Len(q) THEN [panic |-> FALSE, v |-> SubSeq(q, a + 1, b)] ELSE [panic |-> TRUE]

list_rpush(q, item) == q \o <<item>>
list_lpush(q, item) == <<item>> \o q
list_lpop(q) == IF q = <<>> THEN [q |-> q, ret |-> None]
                ELSE [q |-> Tail(q), ret |-> Some(Head(q))]
list_rpop(q) == IF q = <<>> THEN [q |-> q, ret |-> None]
                ELSE [q |-> SubSeq(q, 1, Len(q) - 1), ret |-> Some(q[Len(q)])]
list_len(q) == Len(q)

(* RedisList::range *)
list_range(q, start, end, checks) ==
  LET len == Len(q)
      actual_start == IF start < 0 THEN len + start ELSE start
      actual_end == IF end < 0 THEN len + end ELSE end
      start_idx == AsUsize(Max(actual_start, 0))
      plus_one == Arith(actual_end + 1, checks)
  IN  IF plus_one.panic THEN [panic |-> TRUE]
      ELSE LET end_idx == AsUsize(Min(plus_one.v, len))
           IN  IF start_idx >= end_idx THEN [panic |-> FALSE, v |-> <<>>]
               ELSE deque_range(q, start_idx, end_idx)

(* RedisList::trim *)
list_trim(q, start, end, checks) ==
  LET len == Len(q)
      actual_start == IF start < 0 THEN len + start ELSE start
      actual_end == IF end < 0 THEN len + end ELSE end
      start_idx == AsUsize(Max(actual_start, 0))
      plus_one == Arith(actual_end + 1, checks)
  IN  IF actual_start > actual_end THEN [panic |-> FALSE, v |-> <<>>]
      ELSE IF plus_one.panic THEN [panic |-> TRUE]
      ELSE LET end_idx == AsUsize(Min(plus_one.v, len))
           IN  IF start_idx >= end_idx THEN [panic |-> FALSE, v |-> <<>>]
               ELSE deque_range(q, start_idx, end_idx)

(* RedisList::set: an index that names no element changes nothing *)
list_set(q, index, value) ==
  LET len == Len(q)
      actual_index == AsUsize(IF index < 0 THEN len + index ELSE index)
  IN  IF actual_index < len THEN [q EXCEPT ![actual_index + 1] = value] ELSE q

(* RedisList::insert *)
list_insert(q, ord, pivot, value) ==
  IF \E i \in 1 .. Len(q) : q[i] = pivot
    THEN LET idx == (CHOOSE i \in 1 .. Len(q) :
                       q[i] = pivot /\ \A j \in 1 .. (i - 1) : q[j] # pivot) - 1
         IN  CASE ord = "BEFORE" ->
                    [q |-> SubSeq(q, 1, idx) \o <<value>> \o SubSeq(q, idx + 1, Len(q)),
                     ret |-> Ok(idx)]
               [] ord = "AFTER" ->
                    [q |-> SubSeq(q, 1, idx + 1) \o <<value>> \o SubSeq(q, idx + 2, Len(q)),
                     ret |-> Ok(idx + 1)]
               [] OTHER -> [q |-> q, ret |-> Err(InvalidInsertDirection)]
    ELSE [q |-> q, ret |-> Err(PivotNotFound)]

----------------------------------------------------------------------------
(* RedisSortedSet: members (HashMap<Bytes, Score>) and ordered_members     *)
(* (BTreeSet<(Score, Bytes)>, here the sequence of its elements in the     *)
(* order the tree holds them).  A Score is an f64: a number or NaN.        *)

F64(v) == [nan |-> FALSE, v |-> v]
NaN == [nan |-> TRUE, v |-> 0]

Less == 0 - 1
Equal == 0
Greater == 1

(* f64::partial_cmp *)
partial_cmp(a, b) ==
  IF a.nan \/ b.nan THEN None
  ELSE Some(IF a.v < b.v THEN Less ELSE IF a.v > b.v THEN Greater ELSE Equal)

(* Ord for Score: partial_cmp(..).unwrap_or(Ordering::Equal) *)
score_cmp(a, b) == IF partial_cmp(a, b).some THEN partial_cmp(a, b).v ELSE Equal

(* the value of a byte *)
Byte(ch) == CASE ch = "a" -> 97 [] ch = "m" -> 109 [] ch = "n" -> 110
              [] ch = "\\xFF" -> 255 [] OTHER -> 0

RECURSIVE bytes_cmp(_, _)
(* Ord for Bytes: lexicographic *)
bytes_cmp(a, b) ==
  IF a = <<>> THEN (IF b = <<>> THEN Equal ELSE Less)
  ELSE IF b = <<>> THEN Greater
  ELSE IF Byte(Head(a)) < Byte(Head(b)) THEN Less
  ELSE IF Byte(Head(a)) > Byte(Head(b)) THEN Greater
  ELSE bytes_cmp(Tail(a), Tail(b))

(* Ord for (Score, Bytes) *)
entry_cmp(x, y) ==
  IF score_cmp(x[1], y[1]) # Equal THEN score_cmp(x[1], y[1]) ELSE bytes_cmp(x[2], y[2])

RECURSIVE btree_search(_, _, _)
(* the search of one tree node for a key, from position i: the first       *)
(* element that is not less than the key, and whether it compares equal    *)
btree_search(t, key, i) ==
  IF i > Len(t) THEN [found |-> FALSE, at |-> i]
  ELSE IF entry_cmp(key, t[i]) = Greater THEN btree_search(t, key, i + 1)
  ELSE [found |-> entry_cmp(key, t[i]) = Equal, at |-> i]

(* BTreeSet::insert *)
btree_insert(t, key) ==
  LET p == btree_search(t, key, 1)
  IN  IF p.found THEN t
      ELSE SubSeq(t, 1, p.at - 1) \o <<key>> \o SubSeq(t, p.at, Len(t))

(* BTreeSet::remove *)
btree_remove(t, key) ==
  LET p == btree_search(t, key, 1)
  IN  IF p.found THEN SubSeq(t, 1, p.at - 1) \o SubSeq(t, p.at + 1, Len(t)) ELSE t

(* BTreeSet::range((Included(lo), Included(hi))): a start above the end is *)
(* a panic                                                                 *)
btree_range(t, lo, hi) ==
  IF entry_cmp(lo, hi) = Greater THEN [panic |-> TRUE]
  ELSE LET a == btree_search(t, lo, 1)
           b == btree_search(t, hi, a.at)
           last == IF b.found THEN b.at ELSE b.at - 1
       IN  [panic |-> FALSE, v |-> SubSeq(t, a.at, last)]

RedisSortedSet_new == [members |-> EmptyMap, ordered_members |-> <<>>]

(* RedisSortedSet::zadd *)
sorted_set_zadd(z, member, score) ==
  LET removed == IF contains_key(z.members, member)
                   THEN btree_remove(z.ordered_members, <<z.members[member], member>>)
                   ELSE z.ordered_members
  IN  [members |-> insert(z.members, member, score),
       ordered_members |-> btree_insert(removed, <<score, member>>)]

(* RedisSortedSet::zscore *)
sorted_set_zscore(z, member) ==
  IF contains_key(z.members, member) THEN Some(z.members[member]) ELSE None

(* RedisSortedSet::zrem *)
sorted_set_zrem(z, member) ==
  IF contains_key(z.members, member)
    THEN [z |-> [members |-> remove(z.members, member),
                 ordered_members |->
                   btree_remove(z.ordered_members, <<z.members[member], member>>)],
          ret |-> TRUE]
    ELSE [z |-> z, ret |-> FALSE]

(* RedisSortedSet::zcard *)
sorted_set_zcard(z) == Cardinality(DOMAIN z.members)

(* RedisSortedSet::zrank *)
sorted_set_zrank(z, member) ==
  LET t == z.ordered_members
  IN  IF \E i \in 1 .. Len(t) : t[i][2] = member
        THEN Some((CHOOSE i \in 1 .. Len(t) :
                     t[i][2] = member /\ \A j \in 1 .. (i - 1) : t[j][2] # member) - 1)
        ELSE None

(* RedisSortedSet::zrange: skip(start).take((stop - start + 1) as usize) *)
sorted_set_zrange(z, start, stop, checks) ==
  LET sorted == [i \in 1 .. Len(z.ordered_members) |-> z.ordered_members[i][2]]
      len == Len(sorted)
      from == IF start < 0 THEN len + start ELSE start
      to == IF stop < 0 THEN len + stop ELSE stop
      count == Arith(to - from + 1, checks)
  IN  IF from < 0 \/ to < from \/ from >= len THEN [panic |-> FALSE, v |-> <<>>]
      ELSE IF count.panic THEN [panic |-> TRUE]
      ELSE [panic |-> FALSE,
            v |-> SubSeq(sorted, from + 1, Min(from + AsUsize(count.v), len))]

MaxBytes == <<"\\xFF", "\\xFF", "\\xFF", "\\xFF">>

(* RedisSortedSet::zrange_by_score *)
sorted_set_zrange_by_score(z, min, max) ==
  LET r == btree_range(z.ordered_members, <<min, <<>>>>, <<max, MaxBytes>>)
  IN  IF r.panic THEN r
      ELSE LET Keep(e) == partial_cmp(e[1], min).some /\ partial_cmp(e[1], min).v # Less
                          /\ partial_cmp(e[1], max).some /\ partial_cmp(e[1], max).v # Greater
               kept == SelectSeq(r.v, Keep)
           IN  [panic |-> FALSE, v |-> [i \in 1 .. Len(kept) |-> kept[i][2]]]

(* SortedSetOp::zadd for Database *)
RECURSIVE zset_zadd_each(_, _)
zset_zadd_each(z, pair) ==
  IF pair = <<>> THEN z
  ELSE zset_zadd_each(sorted_set_zadd(z, Head(pair)[2], Head(pair)[1]), Tail(pair))

zadd(m, key, pair) ==
  IF contains_key(m, key)
    THEN IF m[key].tag = "zset"
           THEN [m |-> [m EXCEPT ![key] = SortedSet(zset_zadd_each(m[key].z, pair))],
                 ret |-> Len(pair)]
           ELSE [m |-> m, ret |-> 0]
    ELSE [m |-> m, ret |-> 0]

(* SortedSetOp::zrange for Database *)
zrange(m, key, start, stop, checks) ==
  IF contains_key(m, key)
    THEN IF m[key].tag = "zset"
           THEN LET r == sorted_set_zrange(m[key].z, start, stop, checks)
                IN  IF r.panic THEN r ELSE [panic |-> FALSE, ret |-> Ok(r.v)]
           ELSE [panic |-> FALSE, ret |-> Err(WrongType)]
    ELSE [panic |-> FALSE, ret |-> Err(WrongType)]

(* SortedSetOp::zrange_by_score for Database *)
zrange_by_score(m, key, min, max) ==
  IF contains_key(m, key)
    THEN IF m[key].tag = "zset"
           THEN LET r == sorted_set_zrange_by_score(m[key].z, min, max)
                IN  IF r.panic THEN r ELSE [panic |-> FALSE, ret |-> Ok(r.v)]
           ELSE [panic |-> FALSE, ret |-> Err(WrongType)]
    ELSE [panic |-> FALSE, ret |-> Err(WrongType)]

----------------------------------------------------------------------------
(* SetOptions and command_helper::parse_key_value_options_command *)

NoOptions == [nx |-> FALSE, xx |-> FALSE, ex |-> None, px |-> None, keepttl |-> FALSE]

(* char::to_uppercase on the letters of the option names *)
UpperChar(ch) ==
  CASE ch = "n" -> "N" [] ch = "x" -> "X" [] ch = "e" -> "E" [] ch = "p" -> "P"
    [] ch = "k" -> "K" [] ch = "t" -> "T" [] ch = "l" -> "L" [] OTHER -> ch

to_uppercase(b) == [i \in 1 .. Len(b) |-> UpperChar(b[i])]

(* Option<u64> of `val_str.parse().ok()` *)
parse_ok(b) == IF parse_u64(b).ok THEN Some(parse_u64(b).v) ELSE None

(* the while loop over elements[3..]: i is the index of the next option *)
RECURSIVE parse_options(_, _, _)
parse_options(elements, i, opts) ==
  IF i > Len(elements) THEN opts
  ELSE LET opt == to_uppercase(elements[i])
           more == i + 1 <= Len(elements)
       IN  CASE opt = <<"N", "X">> -> parse_options(elements, i + 1, [opts EXCEPT !.nx = TRUE])
             [] opt = <<"X", "X">> -> parse_options(elements, i + 1, [opts EXCEPT !.xx = TRUE])
             [] opt = <<"E", "X">> ->
                  IF more
                    THEN parse_options(elements, i + 2,
                                       [opts EXCEPT !.ex = parse_ok(elements[i + 1])])
                    ELSE parse_options(elements, i + 1, opts)
             [] opt = <<"P", "X">> ->
                  IF more
                    THEN parse_options(elements, i + 2,
                                       [opts EXCEPT !.px = parse_ok(elements[i + 1])])
                    ELSE parse_options(elements, i + 1, opts)
             [] opt = <<"K", "E", "E", "P", "T", "T", "L">> ->
                  parse_options(elements, i + 1, [opts EXCEPT !.keepttl = TRUE])
             [] OTHER -> parse_options(elements, i + 1, opts)

parse_key_value_options_command(options) == parse_options(options, 1, NoOptions)

----------------------------------------------------------------------------
(* State *)

VARIABLES
  data,             \* Database.data: database index -> key -> RedisValue
  data_expiration_time,  \* Database.data_expiration_time: index -> key -> deadline
  current_db,       \* Database.current_db, one cell shared by all connections
  now,              \* SystemTime::now(), in seconds
  overflow_checks,  \* the build: TRUE when overflow panics, FALSE when it wraps
  pc,               \* per connection: where its handler is
  loc,              \* per connection: the locals of the command in progress
  reply,            \* per connection: the last reply written to its socket
  ops,              \* number of commands started
  ev,               \* history: the last step taken (was: the tag its key had)
  pre,              \* history: data and data_expiration_time before that step
  selected,         \* history: the database each connection itself selected
  sum,              \* history: exact sum of the increments on K1, None once out of i64
  items,            \* RedisList.items of one list, driven method by method
  sorted_set,       \* one RedisSortedSet: members and ordered_members
  stream            \* per connection: the TcpStream of Networking::handle

vars == <<data, data_expiration_time, current_db, now, overflow_checks, pc, loc,
          reply, ops, ev, pre, selected, sum, items, sorted_set,
          stream>>

(* the data structures that are driven method by method *)
objects == <<items, sorted_set>>

(* a connection just accepted: buffer holds the frames received and not  *)
(* yet decoded, served the frames decoded, written the replies written   *)
NoStream == [buffer |-> <<>>, served |-> <<>>, written |-> <<>>, closed |-> FALSE]

NoLoc == [op |-> "none"]
NoAfter == [op |-> "none"]
NoEvent == [c |-> 0, op |-> "none", key |-> <<>>, keys |-> <<>>, val |-> <<>>,
            db |-> 0, was |-> "none", reply |-> NoReply, after |-> NoAfter]

Brief(e) == [op |-> e.op, key |-> e.key, keys |-> e.keys, val |-> e.val, db |-> e.db,
             was |-> e.was, reply |-> e.reply]

InitWith(checks) ==
  /\ data = [d \in DbIds |-> EmptyMap]
  /\ data_expiration_time = [d \in DbIds |-> EmptyMap]
  /\ current_db = 0
  /\ now = 0
  /\ overflow_checks \in checks
  /\ pc = [c \in Conns |-> "idle"]
  /\ loc = [c \in Conns |-> NoLoc]
  /\ reply = [c \in Conns |-> NoReply]
  /\ ops = 0
  /\ ev = NoEvent
  /\ pre = [data |-> [d \in DbIds |-> EmptyMap],
            exp |-> [d \in DbIds |-> EmptyMap]]
  /\ selected = [c \in Conns |-> 0]
  /\ sum = Some(0)
  /\ items = <<>>
  /\ sorted_set = RedisSortedSet_new
  /\ stream = [c \in Conns |-> NoStream]

(* Database::new: every database empty, database 0 current *)
Init == InitWith(BOOLEAN)

----------------------------------------------------------------------------
(* Steps of a connection.  A command that the code runs under one entry    *)
(* guard is one step; add_value on a key it did not find is two (the       *)
(* lookup, then the insert), and other connections may run in between.     *)

Start(c) ==
  /\ pc[c] = "idle"
  /\ ops < MaxOps
  /\ ops' = ops + 1

Record(c, op, key, keys, val, db, r, after) ==
  /\ ev' = [c |-> c, op |-> op, key |-> key, keys |-> keys, val |-> val,
            db |-> db, was |-> data_type(data[db], key), reply |-> r, after |-> after]
  /\ pre' = [data |-> data, exp |-> data_expiration_time]

(* the reply is written and the handler waits for the next request *)
Finish(c, op, key, keys, val, db, r, after) ==
  /\ reply' = [reply EXCEPT ![c] = r]
  /\ Record(c, op, key, keys, val, db, r, after)

(* the task of the connection unwinds: nothing is written *)
Panic(c, op, key, val, db) ==
  /\ pc' = [pc EXCEPT ![c] = "panicked"]
  /\ loc' = [loc EXCEPT ![c] = NoLoc]
  /\ Record(c, "PANIC", key, <<>>, val, db, NoReply, [NoAfter EXCEPT !.op = op])
  /\ UNCHANGED <<data, data_expiration_time, reply>>

Frame == UNCHANGED <<current_db, now, overflow_checks, selected>>

(* commands::strings::get *)
GetCmd(c, key) ==
  /\ Start(c)
  /\ LET g == get(data[current_db], key)
     IN  Finish(c, "GET", key, <<>>, <<>>, current_db,
                IF g.some THEN format_bulk_string(g.v) ELSE format_null, Brief(ev))
  /\ UNCHANGED <<data, data_expiration_time, pc, loc>>
  /\ Frame

(* commands::strings::set without options *)
SetCmd(c, key, value) ==
  /\ Start(c)
  /\ data' = [data EXCEPT ![current_db] = set(data[current_db], key, value)]
  /\ Finish(c, "SET", key, <<>>, value, current_db, format_simple_string("OK"), NoAfter)
  /\ UNCHANGED <<data_expiration_time, pc, loc>>
  /\ Frame

(* commands::strings::setnx up to the end of db.get: nothing is held      *)
(* between the get and the set                                            *)
SetNXCmd(c, key, value) ==
  /\ Start(c)
  /\ IF get(data[current_db], key).some
       THEN /\ Finish(c, "SETNX", key, <<>>, value, current_db, format_integer(0), NoAfter)
            /\ UNCHANGED <<data, data_expiration_time, pc, loc>>
       ELSE /\ pc' = [pc EXCEPT ![c] = "setnx_set"]
            /\ loc' = [loc EXCEPT ![c] = [op |-> "SETNX", key |-> key, val |-> value]]
            /\ Record(c, "LOOKUP", key, <<>>, value, current_db, NoReply, NoAfter)
            /\ UNCHANGED <<data, data_expiration_time, reply>>
  /\ Frame

(* commands::strings::setnx, the db.set after db.get found nothing *)
SetNXSet(c) ==
  /\ pc[c] = "setnx_set"
  /\ LET l == loc[c]
     IN  /\ data' = [data EXCEPT ![current_db] = set(data[current_db], l.key, l.val)]
         /\ Finish(c, "SETNX", l.key, <<>>, l.val, current_db, format_integer(1), NoAfter)
  /\ pc' = [pc EXCEPT ![c] = "idle"]
  /\ loc' = [loc EXCEPT ![c] = NoLoc]
  /\ UNCHANGED <<data_expiration_time, ops>>
  /\ Frame

(* commands::strings::set with options: the NX and XX tests, the store,   *)
(* then the deadline of EX or PX                                          *)
SetOptCmd(c, key, value, options) ==
  /\ Start(c)
  /\ LET opts == parse_key_value_options_command(options)
         g == get(data[current_db], key)
         refused == (opts.nx /\ g.some) \/ (opts.xx /\ ~g.some)
         secs == IF opts.ex.some THEN opts.ex
                 ELSE IF opts.px.some THEN Some(opts.px.v \div MillisPerSecond)
                 ELSE None
     IN  IF refused
           THEN /\ Finish(c, "SETOPT", key, options, value, current_db, format_null, NoAfter)
                /\ UNCHANGED <<data, data_expiration_time>>
           ELSE /\ data' = [data EXCEPT ![current_db] = set(data[current_db], key, value)]
                /\ data_expiration_time' =
                     IF secs.some
                       THEN [data_expiration_time EXCEPT ![current_db] =
                               expire(data_expiration_time[current_db], key, secs.v, now)]
                       ELSE data_expiration_time
                /\ Finish(c, "SETOPT", key, options, value, current_db,
                          format_simple_string("OK"), NoAfter)
  /\ UNCHANGED <<pc, loc>>
  /\ Frame

RECURSIVE mget(_, _)
(* mget that leaves out the keys it does not find *)
mget_skips_absent(m, keys) ==
  IF keys = <<>> THEN <<>>
  ELSE LET g == get(m, Head(keys))
       IN  (IF g.some THEN <<format_bulk_string(g.v)>> ELSE <<>>) \o mget(m, Tail(keys))

(* the loop of commands::strings::mget: one element per key *)
mget(m, keys) ==
  IF keys = <<>> THEN <<>>
  ELSE LET g == get(m, Head(keys))
       IN  <<IF g.some THEN format_bulk_string(g.v) ELSE format_null>> \o mget(m, Tail(keys))

(* commands::strings::mget *)
MGetCmd(c, keys) ==
  /\ Start(c)
  /\ Finish(c, "MGET", <<>>, keys, <<>>, current_db,
            format_array_bytes(mget(data[current_db], keys)), NoAfter)
  /\ UNCHANGED <<data, data_expiration_time, pc, loc>>
  /\ Frame

(* commands::sets::smembers / sinter / sunion / sdiff: r is the Result, *)
(* v one of the vectors it can hold                                       *)
SetReadCmd(c, op, keys, r) ==
  /\ Start(c)
  /\ IF r.ok
       THEN \E v \in r.v :
              Finish(c, op, <<>>, keys, <<>>, current_db, format_array_bytes(v), NoAfter)
       ELSE Finish(c, op, <<>>, keys, <<>>, current_db, format_error(r.e), NoAfter)
  /\ UNCHANGED <<data, data_expiration_time, pc, loc>>
  /\ Frame

SMembersCmd(c, key) == SetReadCmd(c, "SMEMBERS", <<key>>, smembers(data[current_db], key))
SInterCmd(c, keys) == SetReadCmd(c, "SINTER", keys, sinter(data[current_db], keys))
SUnionCmd(c, keys) == SetReadCmd(c, "SUNION", keys, sunion(data[current_db], keys))
SDiffCmd(c, keys) == SetReadCmd(c, "SDIFF", keys, sdiff(data[current_db], keys))

(* commands::keys::keys *)
KeysCmd(c, pattern) ==
  /\ Start(c)
  /\ LET r == keyop_keys(data[current_db], pattern)
     IN  IF r.ok
           THEN \E v \in r.v :
                  Finish(c, "KEYS", <<>>, <<>>, pattern, current_db,
                         format_array_bytes([i \in 1 .. Len(v) |-> format_bulk_string(v[i])]),
                         NoAfter)
           ELSE Finish(c, "KEYS", <<>>, <<>>, pattern, current_db, format_error(r.e), NoAfter)
  /\ UNCHANGED <<data, data_expiration_time, pc, loc>>
  /\ Frame

(* commands::strings::del *)
DelCmd(c, keys) ==
  /\ Start(c)
  /\ LET r == del(data[current_db], keys)
     IN  /\ data' = [data EXCEPT ![current_db] = r.m]
         /\ Finish(c, "DEL", <<>>, keys, <<>>, current_db, format_integer(r.ret), Brief(ev))
  /\ UNCHANGED <<data_expiration_time, pc, loc>>
  /\ Frame

(* commands::strings::append *)
AppendCmd(c, key, value) ==
  /\ Start(c)
  /\ LET r == append(data[current_db], key, value)
     IN  /\ data' = [data EXCEPT ![current_db] = r.m]
         /\ Finish(c, "APPEND", key, <<>>, value, current_db, format_integer(r.ret), NoAfter)
  /\ UNCHANGED <<data_expiration_time, pc, loc>>
  /\ Frame

(* the reply of commands::strings::incr, decr, incr_by and decr_by *)
integer_reply(ret) ==
  IF ret.ok THEN format_integer(ret.v) ELSE format_error(InvalidInteger)

(* Database::add_value up to the end of its get_mut *)
AddValue(c, op, key, val, arg) ==
  LET db == current_db
  IN  IF contains_key(data[db], key)
        THEN LET r == add_value_entry(data[db], key, val, overflow_checks)
             IN  IF r.panic
                   THEN Panic(c, op, key, arg, db)
                   ELSE /\ data' = [data EXCEPT ![db] = r.m]
                        /\ Finish(c, op, key, <<>>, arg, db, integer_reply(r.ret), NoAfter)
                        /\ UNCHANGED <<data_expiration_time, pc, loc>>
        ELSE /\ pc' = [pc EXCEPT ![c] = "add_value_insert"]
             /\ loc' = [loc EXCEPT ![c] = [op |-> op, db |-> db, key |-> key,
                                           val |-> val, arg |-> arg]]
             /\ Record(c, "LOOKUP", key, <<>>, arg, db, NoReply, NoAfter)
             /\ UNCHANGED <<data, data_expiration_time, reply>>

(* Database::add_value, the insert after get_mut found nothing *)
AddValueInsert(c) ==
  /\ pc[c] = "add_value_insert"
  /\ LET l == loc[c]
         r == add_value_insert(data[l.db], l.key, l.val)
     IN  /\ data' = [data EXCEPT ![l.db] = r.m]
         /\ Finish(c, l.op, l.key, <<>>, l.arg, l.db, integer_reply(r.ret), NoAfter)
  /\ pc' = [pc EXCEPT ![c] = "idle"]
  /\ loc' = [loc EXCEPT ![c] = NoLoc]
  /\ UNCHANGED <<data_expiration_time, ops>>
  /\ Frame

(* commands::strings::incr *)
IncrCmd(c, key) ==
  /\ Start(c)
  /\ AddValue(c, "INCR", key, 1, <<>>)
  /\ Frame

(* commands::strings::decr *)
DecrCmd(c, key) ==
  /\ Start(c)
  /\ AddValue(c, "DECR", key, 0 - 1, <<>>)
  /\ Frame

(* commands::strings::incr_by *)
IncrByCmd(c, key, value) ==
  /\ Start(c)
  /\ LET p == parse_i64(value)
     IN  IF p.ok
           THEN AddValue(c, "INCRBY", key, p.v, value)
           ELSE /\ Finish(c, "INCRBY", key, <<>>, value, current_db,
                          format_error(InvalidInteger), NoAfter)
                /\ UNCHANGED <<data, data_expiration_time, pc, loc>>
  /\ Frame

(* commands::strings::decr_by: the decrement is negated, then added *)
DecrByCmd(c, key, value) ==
  /\ Start(c)
  /\ LET p == parse_i64(value)
     IN  IF p.ok
           THEN LET n == Arith(0 - p.v, overflow_checks)
                IN  IF n.panic
                      THEN Panic(c, "DECRBY", key, value, current_db)
                      ELSE AddValue(c, "DECRBY", key, n.v, value)
           ELSE /\ Finish(c, "DECRBY", key, <<>>, value, current_db,
                          format_error(InvalidInteger), NoAfter)
                /\ UNCHANGED <<data, data_expiration_time, pc, loc>>
  /\ Frame

(* the reply to a Result<i64> whose error is formatted as it is *)
result_reply(ret) ==
  IF ret.ok THEN format_integer(ret.v) ELSE format_error(ret.e)

(* commands::hashes::hset *)
HSetCmd(c, key, field, value) ==
  /\ Start(c)
  /\ LET r == hset(data[current_db], key, field, value)
     IN  /\ data' = [data EXCEPT ![current_db] = r.m]
         /\ Finish(c, "HSET", key, <<field>>, value, current_db, result_reply(r.ret), NoAfter)
  /\ UNCHANGED <<data_expiration_time, pc, loc>>
  /\ Frame

(* commands::hashes::hget *)
HGetCmd(c, key, field) ==
  /\ Start(c)
  /\ LET r == hget(data[current_db], key, field)
     IN  Finish(c, "HGET", key, <<field>>, <<>>, current_db,
                IF r.ok
                  THEN IF r.v.some THEN format_bulk_string(r.v.v) ELSE format_null
                  ELSE format_error(r.e),
                NoAfter)
  /\ UNCHANGED <<data, data_expiration_time, pc, loc>>
  /\ Frame

(* commands::hashes::hdel *)
HDelCmd(c, key, fields) ==
  /\ Start(c)
  /\ LET r == hdel_multiple(data[current_db], key, fields)
     IN  /\ data' = [data EXCEPT ![current_db] = r.m]
         /\ Finish(c, "HDEL", key, fields, <<>>, current_db, format_integer(r.ret), NoAfter)
  /\ UNCHANGED <<data_expiration_time, pc, loc>>
  /\ Frame

(* commands::hashes::hincrby *)
HIncrByCmd(c, key, field, value) ==
  /\ Start(c)
  /\ LET p == parse_i64(value)
     IN  IF p.ok
           THEN LET r == hincrby(data[current_db], key, field, p.v, overflow_checks)
                IN  IF r.panic
                      THEN Panic(c, "HINCRBY", key, value, current_db)
                      ELSE /\ data' = [data EXCEPT ![current_db] = r.m]
                           /\ Finish(c, "HINCRBY", key, <<field>>, value, current_db,
                                     result_reply(r.ret), NoAfter)
                           /\ UNCHANGED <<data_expiration_time, pc, loc>>
           ELSE /\ Finish(c, "HINCRBY", key, <<field>>, value, current_db,
                          format_error(InvalidInteger), NoAfter)
                /\ UNCHANGED <<data, data_expiration_time, pc, loc>>
  /\ Frame

(* commands::sets::sadd *)
SAddCmd(c, key, values) ==
  /\ Start(c)
  /\ LET r == sadd(data[current_db], key, values)
     IN  /\ data' = [data EXCEPT ![current_db] = r.m]
         /\ Finish(c, "SADD", key, values, <<>>, current_db, format_integer(r.ret), NoAfter)
  /\ UNCHANGED <<data_expiration_time, pc, loc>>
  /\ Frame

(* commands::sets::srem *)
SRemCmd(c, key, values) ==
  /\ Start(c)
  /\ LET r == srem(data[current_db], key, values)
     IN  /\ data' = [data EXCEPT ![current_db] = r.m]
         /\ Finish(c, "SREM", key, values, <<>>, current_db, format_integer(r.ret), NoAfter)
  /\ UNCHANGED <<data_expiration_time, pc, loc>>
  /\ Frame

(* commands::lists::lpush *)
LPushCmd(c, key, values) ==
  /\ Start(c)
  /\ LET r == lpush(data[current_db], key, values)
     IN  /\ data' = [data EXCEPT ![current_db] = r.m]
         /\ Finish(c, "LPUSH", key, values, <<>>, current_db, format_integer(r.ret), NoAfter)
  /\ UNCHANGED <<data_expiration_time, pc, loc>>
  /\ Frame

(* commands::lists::rpush *)
RPushCmd(c, key, values) ==
  /\ Start(c)
  /\ LET r == rpush(data[current_db], key, values)
     IN  /\ data' = [data EXCEPT ![current_db] = r.m]
         /\ Finish(c, "RPUSH", key, values, <<>>, current_db, format_integer(r.ret), NoAfter)
  /\ UNCHANGED <<data_expiration_time, pc, loc>>
  /\ Frame

(* str::parse::<f64>: a decimal integer or, in any case, "nan" *)
parse_f64(s) ==
  IF to_uppercase(s) = <<"N", "A", "N">> THEN Ok(NaN)
  ELSE IF parse_i64(s).ok THEN Ok(F64(parse_i64(s).v)) ELSE Err("ParseFloatError")

(* commands::zsets::zadd *)
ZAddCmd(c, key, score, member) ==
  /\ Start(c)
  /\ LET p == parse_f64(score)
     IN  IF p.ok
           THEN LET r == zadd(data[current_db], key, <<<<p.v, member>>>>)
                IN  /\ data' = [data EXCEPT ![current_db] = r.m]
                    /\ Finish(c, "ZADD", key, <<member>>, score, current_db,
                              format_integer(r.ret), NoAfter)
           ELSE /\ Finish(c, "ZADD", key, <<member>>, score, current_db,
                          format_error(InvalidFloat), NoAfter)
                /\ UNCHANGED data
  /\ UNCHANGED <<data_expiration_time, pc, loc>>
  /\ Frame

(* commands::keys::type_ *)
TypeCmd(c, key) ==
  /\ Start(c)
  /\ Finish(c, "TYPE", key, <<>>, <<>>, current_db,
            format_simple_string(data_type(data[current_db], key)), Brief(ev))
  /\ UNCHANGED <<data, data_expiration_time, pc, loc>>
  /\ Frame

(* commands::keys::exists *)
ExistsCmd(c, keys) ==
  /\ Start(c)
  /\ Finish(c, "EXISTS", <<>>, keys, <<>>, current_db,
            format_integer(exist(data[current_db], keys)), NoAfter)
  /\ UNCHANGED <<data, data_expiration_time, pc, loc>>
  /\ Frame

(* commands::keys::expire *)
ExpireCmd(c, key, seconds) ==
  /\ Start(c)
  /\ LET p == parse_u64(seconds)
     IN  IF p.ok
           THEN /\ data_expiration_time' =
                     [data_expiration_time EXCEPT ![current_db] =
                        expire(data_expiration_time[current_db], key, p.v, now)]
                /\ Finish(c, "EXPIRE", key, <<>>, seconds, current_db,
                          format_simple_string("OK"), NoAfter)
           ELSE /\ Finish(c, "EXPIRE", key, <<>>, seconds, current_db,
                          format_error(InvalidInteger), NoAfter)
                /\ UNCHANGED data_expiration_time
  /\ UNCHANGED <<data, pc, loc>>
  /\ Frame

(* commands::keys::ttl *)
TtlCmd(c, key) ==
  /\ Start(c)
  /\ Finish(c, "TTL", key, <<>>, <<>>, current_db,
            format_integer(ttl(data_expiration_time[current_db], key, now)), NoAfter)
  /\ UNCHANGED <<data, data_expiration_time, pc, loc>>
  /\ Frame

(* commands::strings::setex *)
SetExCmd(c, key, seconds, value) ==
  /\ Start(c)
  /\ LET p == parse_u64(seconds)
     IN  IF p.ok
           THEN /\ data' = [data EXCEPT ![current_db] = set(data[current_db], key, value)]
                /\ data_expiration_time' =
                     [data_expiration_time EXCEPT ![current_db] =
                        expire(data_expiration_time[current_db], key, p.v, now)]
                /\ Finish(c, "SETEX", key, <<>>, value, current_db,
                          format_simple_string("OK"), NoAfter)
           ELSE /\ Finish(c, "SETEX", key, <<>>, value, current_db,
                          format_error(InvalidInteger), NoAfter)
                /\ UNCHANGED <<data, data_expiration_time>>
  /\ UNCHANGED <<pc, loc>>
  /\ Frame

(* commands::connection::select *)
SelectCmd(c, db_index) ==
  /\ Start(c)
  /\ LET p == parse_u8(db_index)
         valid == p.ok /\ p.v <= SelectMaxIndex
     IN  /\ current_db' = IF valid THEN select(current_db, p.v) ELSE current_db
         /\ selected' = [selected EXCEPT ![c] = IF valid THEN select(@, p.v) ELSE @]
         /\ Finish(c, "SELECT", <<>>, <<>>, db_index, current_db,
                   IF valid THEN format_simple_string("OK")
                   ELSE format_error(InvalidDbIndex), NoAfter)
  /\ UNCHANGED <<data, data_expiration_time, pc, loc, now, overflow_checks>>

(* commands::keys::flushall *)
FlushAllCmd(c) ==
  /\ Start(c)
  /\ data' = flush_all(data, current_db)
  /\ data_expiration_time' = flush_all(data_expiration_time, current_db)
  /\ Finish(c, "FLUSHALL", <<>>, <<>>, <<>>, current_db, format_simple_string("OK"), NoAfter)
  /\ UNCHANGED <<pc, loc>>
  /\ Frame

(* a command whose two effects each read the current index: the first     *)
(* effect is done, the second is to come                                  *)
Between(c, op, first, key, seconds) ==
  /\ pc' = [pc EXCEPT ![c] = first]
  /\ loc' = [loc EXCEPT ![c] = [op |-> op, db |-> current_db, key |-> key,
                                seconds |-> seconds]]
  /\ UNCHANGED <<reply, ev, pre>>

(* commands::strings::setex up to the end of db.set *)
SetExSet(c, key, seconds, value) ==
  /\ Start(c)
  /\ LET p == parse_u64(seconds)
     IN  IF p.ok
           THEN /\ data' = [data EXCEPT ![current_db] = set(data[current_db], key, value)]
                /\ Between(c, "SETEX", "set", key, p.v)
           ELSE /\ Finish(c, "SETEX", key, <<>>, value, current_db,
                          format_error(InvalidInteger), NoAfter)
                /\ UNCHANGED <<data, pc, loc>>
  /\ UNCHANGED data_expiration_time
  /\ Frame

(* commands::strings::setex, the db.expire that follows db.set *)
SetExExpire(c) ==
  /\ pc[c] = "set"
  /\ LET l == loc[c]
     IN  /\ data_expiration_time' =
              [data_expiration_time EXCEPT ![current_db] =
                 expire(data_expiration_time[current_db], l.key, l.seconds, now)]
         /\ Finish(c, l.op, l.key, <<>>, <<>>, current_db, format_simple_string("OK"),
                   [op |-> "set", db |-> l.db])
  /\ pc' = [pc EXCEPT ![c] = "idle"]
  /\ loc' = [loc EXCEPT ![c] = NoLoc]
  /\ UNCHANGED <<data, ops>>
  /\ Frame

(* KeyOp::flush_all up to the end of current_data().clear() *)
FlushAllData(c) ==
  /\ Start(c)
  /\ data' = flush_all(data, current_db)
  /\ Between(c, "FLUSHALL", "clear", <<>>, 0)
  /\ UNCHANGED data_expiration_time
  /\ Frame

(* KeyOp::flush_all, the current_expiration().clear() that follows *)
FlushAllExpiration(c) ==
  /\ pc[c] = "clear"
  /\ data_expiration_time' = flush_all(data_expiration_time, current_db)
  /\ Finish(c, "FLUSHALL", <<>>, <<>>, <<>>, current_db, format_simple_string("OK"),
            [op |-> "clear", db |-> loc[c].db])
  /\ pc' = [pc EXCEPT ![c] = "idle"]
  /\ loc' = [loc EXCEPT ![c] = NoLoc]
  /\ UNCHANGED <<data, ops>>
  /\ Frame

(* commands::keys::flushdb *)
FlushDbCmd(c) ==
  /\ Start(c)
  /\ data' = flush_db(data, current_db)
  /\ data_expiration_time' = flush_db(data_expiration_time, current_db)
  /\ Finish(c, "FLUSHDB", <<>>, <<>>, <<>>, current_db, format_simple_string("OK"), NoAfter)
  /\ UNCHANGED <<pc, loc>>
  /\ Frame

(* the system clock advances *)
Tick ==
  /\ now < MaxNow
  /\ now' = now + 1
  /\ Record(0, "TICK", <<>>, <<>>, <<>>, current_db, NoReply, NoAfter)
  /\ UNCHANGED <<data, data_expiration_time, current_db, overflow_checks, pc, loc,
                 reply, ops, selected>>

(* the reply of a sorted-set read, or the panic of its task *)
ZReadCmd(c, op, key, val, r) ==
  IF r.panic THEN Panic(c, op, key, val, current_db) /\ Frame
  ELSE /\ Finish(c, op, key, <<key>>, val, current_db,
                 IF r.ret.ok THEN format_array_bytes(r.ret.v) ELSE format_error(r.ret.e),
                 NoAfter)
       /\ UNCHANGED <<data, data_expiration_time, pc, loc>>
       /\ Frame

(* commands::zsets::zrange *)
ZRangeCmd(c, key, start, stop) ==
  /\ Start(c)
  /\ IF parse_i64(start).ok /\ parse_i64(stop).ok
       THEN ZReadCmd(c, "ZRANGE", key, <<start, stop>>,
                     zrange(data[current_db], key, parse_i64(start).v, parse_i64(stop).v,
                            overflow_checks))
       ELSE ZReadCmd(c, "ZRANGE", key, <<start, stop>>,
                     [panic |-> FALSE, ret |-> Err(InvalidInteger)])

(* commands::zsets::zrangebyscore *)
ZRangeByScoreCmd(c, key, min, max) ==
  /\ Start(c)
  /\ IF parse_f64(min).ok /\ parse_f64(max).ok
       THEN ZReadCmd(c, "ZRANGEBYSCORE", key, <<min, max>>,
                     zrange_by_score(data[current_db], key, parse_f64(min).v,
                                     parse_f64(max).v))
       ELSE ZReadCmd(c, "ZRANGEBYSCORE", key, <<min, max>>,
                     [panic |-> FALSE, ret |-> Err(InvalidFloat)])

----------------------------------------------------------------------------
(* Calls of the RedisList methods on one list.  ev.keys is the list before *)
(* the call, ev.val the arguments, ev.reply what the method returned.      *)

ListCall(op, args, ret, q) ==
  /\ pc[1] = "idle"
  /\ ops < MaxOps
  /\ ops' = ops + 1
  /\ items' = q
  /\ ev' = [c |-> 1, op |-> op, key |-> <<>>, keys |-> items, val |-> args, db |-> 0,
            was |-> "list", reply |-> ret, after |-> NoAfter]
  /\ UNCHANGED <<data, data_expiration_time, current_db, now, overflow_checks, pc, loc,
                 reply, pre, selected, sum, sorted_set, stream>>

ListPanic(op, args) ==
  /\ pc[1] = "idle"
  /\ ops < MaxOps
  /\ ops' = ops + 1
  /\ pc' = [pc EXCEPT ![1] = "panicked"]
  /\ ev' = [c |-> 1, op |-> "PANIC", key |-> <<>>, keys |-> items, val |-> args, db |-> 0,
            was |-> "list", reply |-> NoReply, after |-> [NoAfter EXCEPT !.op = op]]
  /\ UNCHANGED <<data, data_expiration_time, current_db, now, overflow_checks, loc,
                 reply, pre, selected, sum, items, sorted_set, stream>>

Unit == [t |-> "unit"]
Vec(v) == [t |-> "vec", elements |-> v]

ListRPush(item) == ListCall("rpush", <<item>>, Unit, list_rpush(items, item))
ListLPush(item) == ListCall("lpush", <<item>>, Unit, list_lpush(items, item))
ListLPop == ListCall("lpop", <<>>, list_lpop(items).ret, list_lpop(items).q)
ListRPop == ListCall("rpop", <<>>, list_rpop(items).ret, list_rpop(items).q)
ListLen == ListCall("len", <<>>, format_integer(list_len(items)), items)

ListRange(start, end) ==
  LET r == list_range(items, start, end, overflow_checks)
  IN  IF r.panic THEN ListPanic("range", <<start, end>>)
      ELSE ListCall("range", <<start, end>>, Vec(r.v), items)

ListTrim(start, end) ==
  LET r == list_trim(items, start, end, overflow_checks)
  IN  IF r.panic THEN ListPanic("trim", <<start, end>>)
      ELSE ListCall("trim", <<start, end>>, Unit, r.v)

ListSet(index, value) ==
  ListCall("set", <<index, value>>, Unit, list_set(items, index, value))

ListInsert(ord, pivot, value) ==
  LET r == list_insert(items, ord, pivot, value)
  IN  ListCall("insert", <<ord, pivot, value>>, r.ret, r.q)

(* ListOp::lset and commands::lists::lset on a key that holds the list:    *)
(* Ok(list.set(index, value)) whatever the index, so the reply is OK       *)
LSetList(index, value) ==
  ListCall("lset", <<index, value>>, format_simple_string("OK"),
           list_set(items, index, value))

(* ListOp::linsert and commands::lists::linsert on a key that holds the    *)
(* list: the result of RedisList::insert, formatted                        *)
LInsertList(ord, pivot, value) ==
  LET r == list_insert(items, ord, pivot, value)
  IN  ListCall("linsert", <<ord, pivot, value>>,
               IF r.ret.ok THEN format_integer(r.ret.v) ELSE format_error(r.ret.e), r.q)

----------------------------------------------------------------------------
(* Calls on one RedisSortedSet held under a key: the sorted-set branch of  *)
(* the SortedSetOp methods with the reply of the command.  ev.keys is the  *)
(* sorted set before the call, ev.val the arguments.                       *)

ZSetCall(op, args, ret, z) ==
  /\ pc[1] = "idle"
  /\ ops < MaxOps
  /\ ops' = ops + 1
  /\ sorted_set' = z
  /\ ev' = [c |-> 1, op |-> op, key |-> <<>>, keys |-> sorted_set, val |-> args, db |-> 0,
            was |-> "zset", reply |-> ret, after |-> NoAfter]
  /\ UNCHANGED <<data, data_expiration_time, current_db, now, overflow_checks, pc, loc,
                 reply, pre, selected, sum, items, stream>>

ZSetPanic(op, args) ==
  /\ pc[1] = "idle"
  /\ ops < MaxOps
  /\ ops' = ops + 1
  /\ pc' = [pc EXCEPT ![1] = "panicked"]
  /\ ev' = [c |-> 1, op |-> "PANIC", key |-> <<>>, keys |-> sorted_set, val |-> args,
            db |-> 0, was |-> "zset", reply |-> NoReply, after |-> [NoAfter EXCEPT !.op = op]]
  /\ UNCHANGED <<data, data_expiration_time, current_db, now, overflow_checks, loc,
                 reply, pre, selected, sum, items, sorted_set, stream>>

(* SortedSetOp::zadd: every pair is applied and counted *)
ZAddZSet(pair) ==
  ZSetCall("zadd", pair, format_integer(Len(pair)), zset_zadd_each(sorted_set, pair))

RECURSIVE zset_zrem_each(_, _)
zset_zrem_each(z, values) ==
  IF values = <<>> THEN [z |-> z, ret |-> 0]
  ELSE LET r == sorted_set_zrem(z, Head(values))
           rest == zset_zrem_each(r.z, Tail(values))
       IN  [z |-> rest.z, ret |-> rest.ret + (IF r.ret THEN 1 ELSE 0)]

(* SortedSetOp::zrem *)
ZRemZSet(values) ==
  LET r == zset_zrem_each(sorted_set, values)
  IN  ZSetCall("zrem", values, format_integer(r.ret), r.z)

(* SortedSetOp::zrange *)
ZRangeZSet(start, stop) ==
  LET r == sorted_set_zrange(sorted_set, start, stop, overflow_checks)
  IN  IF r.panic THEN ZSetPanic("zrange", <<start, stop>>)
      ELSE ZSetCall("zrange", <<start, stop>>, format_array_bytes(r.v), sorted_set)

(* SortedSetOp::zrange_by_score *)
ZRangeByScoreZSet(min, max) ==
  LET r == sorted_set_zrange_by_score(sorted_set, min, max)
  IN  IF r.panic THEN ZSetPanic("zrangebyscore", <<min, max>>)
      ELSE ZSetCall("zrangebyscore", <<min, max>>, format_array_bytes(r.v), sorted_set)

(* SortedSetOp::zrank *)
ZRankZSet(member) ==
  LET r == sorted_set_zrank(sorted_set, member)
  IN  ZSetCall("zrank", <<member>>,
               IF r.some THEN format_integer(r.v) ELSE format_null, sorted_set)

----------------------------------------------------------------------------
(* Inputs *)

V1 == <<"a">>
V2 == <<"5">>
Vals == {V1, V2}
F1 == <<"f">>
M1 == <<"m">>
M2 == <<"n">>
Members == {M1, M2}
SetKeyArgs == {<<K1>>, <<K1, K2>>, <<K2, K1>>, <<K1, K1>>}
K4 == <<"k", "j">>
GlobKeys == {K1, K2, K4}
Patterns == {<<"*">>, <<"k">>, <<"i">>, <<"?">>, <<"k", "?">>, <<"?", "j">>, <<"k", "*">>,
             <<"*", "j">>, <<"k", "j">>, <<"*", "?">>, <<"*", "*">>}
F2 == <<"g">>
Fields == {F1, F2}
FieldLists == {<<F1>>, <<F2>>, <<F1, F2>>, <<F1, F1>>}
MultiArgs == {[op |-> "DEL", keys |-> <<K1, K2>>, vals |-> <<>>],
              [op |-> "EXISTS", keys |-> <<K2, K3>>, vals |-> <<>>],
              [op |-> "MGET", keys |-> <<K1, K2>>, vals |-> <<>>],
              [op |-> "MSET", keys |-> <<K1, K2>>, vals |-> <<V1, V1>>],
              [op |-> "MSET", keys |-> <<K2, K3>>, vals |-> <<V2, V2>>],
              [op |-> "SINTER", keys |-> <<K1, K2>>, vals |-> <<>>],
              [op |-> "SUNION", keys |-> <<K2, K1>>, vals |-> <<>>],
              [op |-> "SDIFF", keys |-> <<K1, K2>>, vals |-> <<>>]}
KeyLists == {<<K1>>, <<K2>>, <<K1, K2>>, <<K1, K1>>}
SecondsArgs == {<<"0">>, <<"1">>, <<"x">>}
SelectArgs == {to_string(i) : i \in 0 .. DbNum} \cup {<<"x">>}
MGetArgs == {<<K1>>, <<K2, K1>>, <<K1, K2, K3>>, <<K1, K1>>}
SetOptArgs == {<<<<"N", "X">>>>, <<<<"x", "x">>>>, <<<<"N", "X">>, <<"X", "X">>>>,
               <<<<"K", "E", "E", "P", "T", "T", "L">>>>, <<<<"E", "X">>, <<"1">>>>,
               <<<<"P", "X">>, <<"1", "0", "0", "0">>>>}
IndexArgs == {I64_MIN, I64_MAX} \cup ((0 - MaxOps) .. (MaxOps - 1))
Scores == {F64(1), F64(2), NaN}
ZMembers == {V1, M1, M2}
PairArgs == {<<<<x, m>>>> : x \in Scores, m \in ZMembers}
               \cup {<<<<F64(1), M1>>, <<F64(2), M1>>>>, <<<<F64(1), M1>>, <<F64(1), M2>>>>,
                     <<<<F64(2), V1>>, <<NaN, M1>>>>}
ZIndexArgs == {I64_MIN, 0 - 1, 0, 1, I64_MAX}
OrdArgs == {"BEFORE", "AFTER", "x"}
ArithArgs == {to_string(I64_MIN), <<"-", "1">>, <<"1">>, <<"2">>, to_string(I64_MAX), <<"x">>}

(* the increment a command asks for, as an exact integer *)
Delta(sign, value) == IF parse_i64(value).ok THEN sign * parse_i64(value).v ELSE 0

(* the running sum after one more increment *)
Acc(s, d) == IF s.some /\ InRange(s.v + d) THEN Some(s.v + d) ELSE None

----------------------------------------------------------------------------
(* sadd, hset and append as the two steps they are on an absent key: the  *)
(* get_mut that finds nothing holds no entry, and the insert follows      *)

(* the call up to the end of get_mut: r is what the whole call does to    *)
(* the map of the current database                                        *)
GetMut(c, op, key, keys, val, r, ret) ==
  IF contains_key(data[current_db], key)
    THEN /\ data' = [data EXCEPT ![current_db] = r.m]
         /\ Finish(c, op, key, keys, val, current_db, ret, NoAfter)
         /\ UNCHANGED <<data_expiration_time, pc, loc>>
    ELSE /\ pc' = [pc EXCEPT ![c] = "data_insert"]
         /\ loc' = [loc EXCEPT ![c] = [op |-> op, db |-> current_db, key |-> key,
                                       keys |-> keys, val |-> val, value |-> r.m[key],
                                       ret |-> ret]]
         /\ Record(c, "LOOKUP", key, keys, val, current_db, NoReply, NoAfter)
         /\ UNCHANGED <<data, data_expiration_time, reply>>

(* data.insert of the value built after get_mut found nothing *)
DataInsert(c) ==
  /\ pc[c] = "data_insert"
  /\ LET l == loc[c]
     IN  /\ data' = [data EXCEPT ![l.db] = insert(data[l.db], l.key, l.value)]
         /\ Finish(c, l.op, l.key, l.keys, l.val, l.db, l.ret, NoAfter)
  /\ pc' = [pc EXCEPT ![c] = "idle"]
  /\ loc' = [loc EXCEPT ![c] = NoLoc]
  /\ UNCHANGED <<data_expiration_time, ops>>
  /\ Frame

(* SetOp::sadd *)
SAddGetMut(c, key, values) ==
  /\ Start(c)
  /\ LET r == sadd(data[current_db], key, values)
     IN  GetMut(c, "SADD", key, values, <<>>, r, format_integer(r.ret))
  /\ Frame

(* HashOp::hset *)
HSetGetMut(c, key, field, value) ==
  /\ Start(c)
  /\ LET r == hset(data[current_db], key, field, value)
     IN  GetMut(c, "HSET", key, <<field>>, value, r, result_reply(r.ret))
  /\ Frame

(* StringOp::append *)
AppendGetMut(c, key, value) ==
  /\ Start(c)
  /\ LET r == append(data[current_db], key, value)
     IN  GetMut(c, "APPEND", key, <<>>, value, r, format_integer(r.ret))
  /\ Frame

----------------------------------------------------------------------------
(* The commands that visit several keys, key by key.  A handle returned by *)
(* DashMap::get or get_mut locks the shard of its key, shared or exclusive, *)
(* until it is dropped; remove, contains_key and insert lock the shard for *)
(* the call alone.                                                         *)

(* the shard a key hashes to: K1 and K3 fall into one shard, K2 into another *)
determine_shard(key) == IF key = K2 THEN 1 ELSE 0

(* the handles connection c holds *)
Holds(c) == IF pc[c] = "multi" THEN loc[c].held ELSE {}

(* RwLock: a shard can be locked shared while no handle on it is exclusive, *)
(* and exclusive while there is no handle on it at all                      *)
Free(key, write) ==
  \A d \in Conns : \A e \in Holds(d) :
    e.shard = determine_shard(key) => (~write /\ ~e.write)

(* a handle that stays alive to the end of the command *)
keep_entry(held, e) == held

(* the handle goes out of scope at the end of the body that used it *)
drop_entry(held, e) == held \ e

RECURSIVE Flatten(_)
Flatten(vs) == IF vs = <<>> THEN <<>> ELSE Head(vs) \o Flatten(Tail(vs))

Bulks(v) == [i \in 1 .. Len(v) |-> format_bulk_string(v[i])]

(* the replies the command can format once every key is visited *)
MultiReply(l) ==
  CASE l.op \in {"DEL", "EXISTS"} -> {format_integer(l.n)}
    [] l.op = "MGET" -> {format_array_bytes(l.response)}
    [] l.op = "MSET" -> {format_simple_string("OK")}
    [] l.op = "SINTER" -> {format_array_bytes(Bulks(Flatten(l.acc)))}
    [] l.op = "SUNION" ->
         {format_array_bytes(Bulks(v)) : v \in set_smembers(Elements(Flatten(l.acc)))}
    [] OTHER ->
         {format_array_bytes(Bulks(v)) :
            v \in set_smembers(Elements(Head(l.acc)) \ Elements(Flatten(Tail(l.acc))))}

(* the command has returned: its reply is written, its locals are gone *)
MultiReturn(c, l, r) ==
  /\ Finish(c, l.op, <<>>, l.all, l.vals, current_db, r, NoAfter)
  /\ pc' = [pc EXCEPT ![c] = "idle"]
  /\ loc' = [loc EXCEPT ![c] = NoLoc]

(* the end of one turn of the loop over the keys *)
MultiNext(c, l) ==
  IF l.keys = <<>>
    THEN \E r \in MultiReply(l) : MultiReturn(c, l, r)
    ELSE /\ loc' = [loc EXCEPT ![c] = l]
         /\ UNCHANGED <<pc, reply, ev, pre>>

(* the handler is entered with its key list *)
MultiCmd(c, cmd) ==
  /\ Start(c)
  /\ pc' = [pc EXCEPT ![c] = "multi"]
  /\ loc' = [loc EXCEPT ![c] = [op |-> cmd.op, keys |-> cmd.keys, vals |-> cmd.vals,
                                all |-> cmd.keys, at |-> "lock", held |-> {}, cur |-> {},
                                acc |-> <<>>, response |-> <<>>, n |-> 0]]
  /\ UNCHANGED <<data, data_expiration_time, reply, ev, pre>>
  /\ Frame

(* data.get(key) of get and sinter, data.get_mut(key) of set: a handle is *)
(* returned when the key is present                                       *)
LockEntry(c) ==
  /\ pc[c] = "multi"
  /\ loc[c].at = "lock"
  /\ loc[c].op \in {"MGET", "MSET", "SINTER", "SUNION", "SDIFF"}
  /\ LET l == loc[c]
         key == Head(l.keys)
         write == l.op = "MSET"
         e == IF contains_key(data[current_db], key)
                THEN {[shard |-> determine_shard(key), write |-> write]} ELSE {}
     IN  /\ Free(key, write)
         /\ loc' = [loc EXCEPT ![c] = [l EXCEPT !.at = "body", !.cur = e,
                                                !.held = l.held \cup e]]
  /\ UNCHANGED <<data, data_expiration_time, pc, reply, ev, pre, ops>>
  /\ Frame

(* what get, set and sinter do with the handle, up to its drop *)
Body(c) ==
  /\ pc[c] = "multi"
  /\ loc[c].at = "body"
  /\ LET l == loc[c]
         key == Head(l.keys)
         m == data[current_db]
         rest == [l EXCEPT !.at = "lock", !.cur = {}, !.keys = Tail(l.keys),
                           !.vals = IF l.vals = <<>> THEN <<>> ELSE Tail(l.vals),
                           !.held = drop_entry(l.held, l.cur)]
     IN  CASE l.op = "MGET" ->
                /\ MultiNext(c, [rest EXCEPT !.response =
                      Append(l.response, IF l.cur # {} /\ get(m, key).some
                                      THEN format_bulk_string(get(m, key).v)
                                      ELSE format_null)])
                /\ UNCHANGED data
            [] l.op = "MSET" ->
                /\ l.cur = {} => Free(key, TRUE)
                /\ data' = [data EXCEPT ![current_db] = set(m, key, Head(l.vals))]
                /\ MultiNext(c, rest)
            [] OTHER ->
                /\ IF l.cur # {} /\ m[key].tag = "set"
                     THEN \E v \in set_smembers(m[key].m) :
                            MultiNext(c, [rest EXCEPT !.acc = Append(l.acc, v)])
                     ELSE MultiReturn(c, l, format_error(WrongType))
                /\ UNCHANGED data
  /\ UNCHANGED <<data_expiration_time, ops>>
  /\ Frame

(* data.remove(key) of del and data.contains_key(key) of exist *)
CallStep(c) ==
  /\ pc[c] = "multi"
  /\ loc[c].op \in {"DEL", "EXISTS"}
  /\ LET l == loc[c]
         key == Head(l.keys)
         m == data[current_db]
         rest == [l EXCEPT !.keys = Tail(l.keys),
                           !.n = l.n + (IF contains_key(m, key) THEN 1 ELSE 0)]
     IN  /\ Free(key, l.op = "DEL")
         /\ data' = IF l.op = "DEL" THEN [data EXCEPT ![current_db] = remove(m, key)]
                    ELSE data
         /\ MultiNext(c, rest)
  /\ UNCHANGED <<data_expiration_time, ops>>
  /\ Frame

(* one step of a command of connection c that is under way *)
MultiStep(c) ==
  (LockEntry(c) \/ Body(c) \/ CallStep(c)) /\ UNCHANGED <<sum, objects, stream>>

----------------------------------------------------------------------------
(* Networking::handle: the frames of one connection, decoded in order      *)

Request(name, args) == [name |-> name, args |-> args]

Requests == {Request("QUIT", <<>>), Request("FOO", <<>>), Request("GET", <<K1>>),
             Request("SET", <<K1, V1>>), Request("SET", <<K1>>),
             Request("INCRBY", <<K1, <<"1">>>>),
             Request("INCRBY", <<K1, to_string(I64_MAX)>>)}
Pipelines == {<<r>> : r \in Requests} \cup {<<r, q>> : r \in Requests, q \in Requests}

FrameRequests == {Request("GET", <<K1>>), Request("SET", <<K1, V1>>), Request("SET", <<K1>>),
                  Request("FOO", <<>>), Request("QUIT", <<>>), Request("BAD", <<>>)}
FramePipelines == {<<r>> : r \in FrameRequests}
                    \cup {<<r, q>> : r \in FrameRequests, q \in FrameRequests}

RECURSIVE Received(_)
(* the number of frames the connections in S have received *)
Received(S) ==
  IF S = {} THEN 0
  ELSE LET c == CHOOSE x \in S : TRUE
       IN  Len(stream[c].served) + Len(stream[c].buffer) + Received(S \ {c})

(* reader.read_buf: the client sends complete frames *)
Receive(c, frames) ==
  /\ ~stream[c].closed
  /\ pc[c] # "panicked"
  /\ Received(Conns) + Len(frames) <= MaxOps
  /\ stream' = [stream EXCEPT ![c].buffer = @ \o frames]
  /\ UNCHANGED <<data, data_expiration_time, current_db, now, overflow_checks, pc, loc,
                 reply, ops, ev, pre, selected, sum, objects>>

(* read_buf returns 0: the client has closed, the loop ends *)
Eof(c) ==
  /\ ~stream[c].closed
  /\ pc[c] = "idle"
  /\ stream[c].buffer = <<>>
  /\ stream' = [stream EXCEPT ![c].closed = TRUE]
  /\ UNCHANGED <<data, data_expiration_time, current_db, now, overflow_checks, pc, loc,
                 reply, ops, ev, pre, selected, sum, objects>>

(* Command::Quit: handle returns before anything is written *)
QuitCmd(c) ==
  /\ Start(c)
  /\ Record(c, "QUIT", <<>>, <<>>, <<>>, current_db, NoReply, NoAfter)
  /\ UNCHANGED <<data, data_expiration_time, pc, loc, reply>>
  /\ Frame

(* the number of elements after the name that Command::parse requires of  *)
(* each command name it knows                                             *)
Arity == [QUIT |-> 0, GET |-> 1, SET |-> 2, INCRBY |-> 2]

(* Command::parse: None for a name outside the table and for a name in    *)
(* the table with another number of elements                              *)
parse(f) ==
  IF f.name \in DOMAIN Arity /\ Len(f.args) = Arity[f.name] THEN Some(f) ELSE None

(* Command::parse returned None *)
UnknownCmd(c, f) ==
  /\ Start(c)
  /\ Finish(c, "UNKNOWN", <<>>, f.args, <<f.name>>, current_db,
            format_error(UnknownCommand), NoAfter)
  /\ UNCHANGED <<data, data_expiration_time, pc, loc>>
  /\ Frame

(* what the step leaves of the stream: the reply is written once the      *)
(* command has returned; a panic or QUIT drops the stream                 *)
Written(c, f, consumed) ==
  stream' = [stream EXCEPT ![c] =
    [buffer |-> IF consumed THEN Tail(@.buffer) ELSE @.buffer,
     served |-> IF consumed THEN Append(@.served, f) ELSE @.served,
     written |-> IF pc'[c] = "idle" /\ f.name # "QUIT"
                   THEN Append(@.written, reply'[c]) ELSE @.written,
     closed |-> pc'[c] = "panicked" \/ f.name = "QUIT"]]

(* one frame decoded from the buffer, parsed and executed *)
HandleFrame(c) ==
  /\ ~stream[c].closed
  /\ stream[c].buffer # <<>>
  /\ LET f == Head(stream[c].buffer)
         cmd == parse(f)
     IN  /\ \/ ~cmd.some /\ UnknownCmd(c, f) /\ UNCHANGED sum
            \/ cmd.some /\ f.name = "QUIT" /\ QuitCmd(c) /\ UNCHANGED sum
            \/ cmd.some /\ f.name = "GET" /\ GetCmd(c, f.args[1]) /\ UNCHANGED sum
            \/ cmd.some /\ f.name = "SET" /\ SetCmd(c, f.args[1], f.args[2]) /\ UNCHANGED sum
            \/ cmd.some /\ f.name = "INCRBY" /\ IncrByCmd(c, f.args[1], f.args[2])
                 /\ sum' = Acc(sum, Delta(1, f.args[2]))
         /\ Written(c, f, TRUE)
  /\ UNCHANGED objects

(* the second step of a command in progress, and its reply *)
HandleInsert(c) ==
  /\ ~stream[c].closed
  /\ AddValueInsert(c)
  /\ Written(c, Request("INCRBY", <<>>), FALSE)
  /\ UNCHANGED <<sum, objects>>

----------------------------------------------------------------------------
(* Networking::handle over the bytes of the socket: what the client sends *)
(* arrives in reads of any size                                            *)

CRLF == <<"\r", "\n">>

(* the bytes of a command name *)
NameBytes(name) ==
  CASE name = "GET" -> <<"G", "E", "T">>
    [] name = "SET" -> <<"S", "E", "T">>
    [] name = "QUIT" -> <<"Q", "U", "I", "T">>
    [] OTHER -> <<"F", "O", "O">>

(* the name a frame's first element spells, "FOO" for any other bytes *)
NameOf(b) ==
  IF \E n \in {"GET", "SET", "QUIT"} : NameBytes(n) = b
    THEN CHOOSE n \in {"GET", "SET", "QUIT"} : NameBytes(n) = b
    ELSE "FOO"

encode_bulk(b) == <<"$">> \o to_string(Len(b)) \o CRLF \o b \o CRLF

RECURSIVE encode_bulks(_)
encode_bulks(bs) == IF bs = <<>> THEN <<>> ELSE encode_bulk(Head(bs)) \o encode_bulks(Tail(bs))

(* what a client writes for one request: an array of bulk strings, or for  *)
(* "BAD" a byte that starts no frame                                       *)
encode(f) ==
  IF f.name = "BAD" THEN <<"x">>
  ELSE <<"*">> \o to_string(1 + Len(f.args)) \o CRLF
         \o encode_bulks(<<NameBytes(f.name)>> \o f.args)

RECURSIVE encode_all(_)
encode_all(fs) == IF fs = <<>> THEN <<>> ELSE encode(Head(fs)) \o encode_all(Tail(fs))

Incomplete == [st |-> "incomplete"]
ProtocolError == [st |-> "error"]

(* the decimal length that runs from b[i] to the next CRLF, and the index  *)
(* after that CRLF                                                         *)
decode_length(b, i) ==
  LET ends == {j \in i .. (Len(b) - 1) : b[j] = CRLF[1] /\ b[j + 1] = CRLF[2]}
  IN  IF ends = {} THEN Incomplete
      ELSE LET j == CHOOSE x \in ends : \A y \in ends : x <= y
               n == parse_u64(SubSeq(b, i, j - 1))
           IN  IF n.ok THEN [st |-> "frame", v |-> n.v, next |-> j + 2] ELSE ProtocolError

(* one bulk string from b[i]: '$', its length, the bytes and a CRLF *)
decode_bulk(b, i) ==
  IF i > Len(b) THEN Incomplete
  ELSE IF b[i] # "$" THEN ProtocolError
  ELSE LET n == decode_length(b, i + 1)
       IN  IF n.st # "frame" THEN n
           ELSE IF n.next + n.v + 1 > Len(b) THEN Incomplete
           ELSE IF SubSeq(b, n.next + n.v, n.next + n.v + 1) # CRLF THEN ProtocolError
           ELSE [st |-> "frame", v |-> SubSeq(b, n.next, n.next + n.v - 1),
                 next |-> n.next + n.v + 2]

RECURSIVE decode_elements(_, _, _, _)
(* the n elements of an array from b[i] *)
decode_elements(b, i, n, acc) ==
  IF n = 0 THEN [st |-> "frame", frame |-> acc, consumed |-> i - 1]
  ELSE LET e == decode_bulk(b, i)
       IN  IF e.st # "frame" THEN e
           ELSE decode_elements(b, e.next, n - 1, Append(acc, e.v))

(* redis_protocol::resp2::decode::decode on the arrays of bulk strings the *)
(* clients send: the first frame and the bytes it takes, Incomplete for    *)
(* Ok(None), ProtocolError for Err                                         *)
decode(b) ==
  IF b = <<>> THEN Incomplete
  ELSE IF b[1] # "*" THEN ProtocolError
  ELSE LET n == decode_length(b, 2)
       IN  IF n.st # "frame" THEN n ELSE decode_elements(b, n.next, n.v, <<>>)

(* BytesMut::split_to that empties the buffer *)
split_to_all(buffer, consumed) == <<>>

(* BytesMut::split_to: the first `consumed` bytes leave the buffer *)
split_to(buffer, consumed) == SubSeq(buffer, consumed + 1, Len(buffer))

(* the frame as Command::parse reads it: the name in upper case, then the *)
(* arguments                                                               *)
frame_request(frame) == Request(NameOf(to_uppercase(Head(frame))), Tail(frame))

(* reader.read_buf: n bytes of what the client has sent arrive; the        *)
(* handler reads when the buffer holds no complete frame                   *)
ReadBuf(c, n) ==
  /\ ~stream[c].closed
  /\ pc[c] = "idle"
  /\ decode(stream[c].buffer) = Incomplete
  /\ n \in 1 .. Len(stream[c].wire)
  /\ LET s == stream[c]
         sent == Len(encode_all(s.all)) - Len(s.wire) + n
         bounds == {Len(encode_all(SubSeq(s.all, 1, k))) : k \in 0 .. Len(s.all)}
     IN  stream' = [stream EXCEPT ![c] =
           [s EXCEPT !.buffer = s.buffer \o SubSeq(s.wire, 1, n),
                     !.wire = SubSeq(s.wire, n + 1, Len(s.wire)),
                     !.split = s.split \/ sent \notin bounds]]
  /\ UNCHANGED <<data, data_expiration_time, current_db, now, overflow_checks, pc, loc,
                 reply, ops, ev, pre, selected, sum, objects>>

(* read_buf returns 0: the client has sent everything and closed *)
ReadEof(c) ==
  /\ ~stream[c].closed
  /\ pc[c] = "idle"
  /\ decode(stream[c].buffer) = Incomplete
  /\ stream[c].wire = <<>>
  /\ stream' = [stream EXCEPT ![c].closed = TRUE]
  /\ UNCHANGED <<data, data_expiration_time, current_db, now, overflow_checks, pc, loc,
                 reply, ops, ev, pre, selected, sum, objects>>

(* one turn of the inner loop: a frame is decoded, taken from the buffer, *)
(* parsed and executed and its reply written; a protocol error ends the   *)
(* handler                                                                 *)
HandleBytes(c) ==
  /\ ~stream[c].closed
  /\ LET s == stream[c]
         d == decode(s.buffer)
         f == frame_request(d.frame)
         cmd == parse(f)
     IN  /\ d # Incomplete
         /\ IF d = ProtocolError
              THEN /\ stream' = [stream EXCEPT ![c].closed = TRUE]
                   /\ UNCHANGED <<data, data_expiration_time, current_db, now,
                                  overflow_checks, pc, loc, reply, ops, ev, pre, selected>>
              ELSE /\ \/ ~cmd.some /\ UnknownCmd(c, f)
                      \/ cmd.some /\ f.name = "QUIT" /\ QuitCmd(c)
                      \/ cmd.some /\ f.name = "GET" /\ GetCmd(c, f.args[1])
                      \/ cmd.some /\ f.name = "SET" /\ SetCmd(c, f.args[1], f.args[2])
                   /\ stream' = [stream EXCEPT ![c] =
                        [s EXCEPT !.buffer = split_to(s.buffer, d.consumed),
                                  !.served = Append(s.served, f),
                                  !.written = IF cmd.some /\ f.name = "QUIT" THEN s.written
                                              ELSE Append(s.written, reply'[c]),
                                  !.closed = cmd.some /\ f.name = "QUIT"]]
  /\ UNCHANGED <<sum, objects>>

----------------------------------------------------------------------------
(* Spec: the commands of every value type on one key, from all connections *)

Next ==
  \/ \E c \in Conns : GetCmd(c, K1) /\ UNCHANGED <<sum, objects, stream>>
  \/ \E c \in Conns, v \in Vals : SetCmd(c, K1, v) /\ UNCHANGED <<sum, objects, stream>>
  \/ \E c \in Conns : TypeCmd(c, K1) /\ UNCHANGED <<sum, objects, stream>>
  \/ \E c \in Conns : AppendCmd(c, K1, V1) /\ UNCHANGED <<sum, objects, stream>>
  \/ \E c \in Conns : IncrCmd(c, K1) /\ UNCHANGED <<sum, objects, stream>>
  \/ \E c \in Conns : AddValueInsert(c) /\ UNCHANGED <<sum, objects, stream>>
  \/ \E c \in Conns : HSetCmd(c, K1, F1, V1) /\ UNCHANGED <<sum, objects, stream>>
  \/ \E c \in Conns : HGetCmd(c, K1, F1) /\ UNCHANGED <<sum, objects, stream>>
  \/ \E c \in Conns : HDelCmd(c, K1, <<F1>>) /\ UNCHANGED <<sum, objects, stream>>
  \/ \E c \in Conns : SAddCmd(c, K1, <<M1>>) /\ UNCHANGED <<sum, objects, stream>>
  \/ \E c \in Conns : SRemCmd(c, K1, <<M1>>) /\ UNCHANGED <<sum, objects, stream>>
  \/ \E c \in Conns : LPushCmd(c, K1, <<V1>>) /\ UNCHANGED <<sum, objects, stream>>
  \/ \E c \in Conns : RPushCmd(c, K1, <<V1, V2>>) /\ UNCHANGED <<sum, objects, stream>>
  \/ \E c \in Conns : ZAddCmd(c, K1, <<"1">>, M1) /\ UNCHANGED <<sum, objects, stream>>

Spec == Init /\ [][Next]_vars

----------------------------------------------------------------------------
(* SpecKeys: one connection deletes, flushes and selects over two keys *)

NextKeys ==
  \/ \E k \in Keys : SetCmd(1, k, V1) /\ UNCHANGED <<sum, objects, stream>>
  \/ \E ks \in KeyLists : DelCmd(1, ks) /\ UNCHANGED <<sum, objects, stream>>
  \/ \E k \in Keys : ExpireCmd(1, k, <<"1">>) /\ UNCHANGED <<sum, objects, stream>>
  \/ \E i \in SelectArgs : SelectCmd(1, i) /\ UNCHANGED <<sum, objects, stream>>
  \/ FlushAllCmd(1) /\ UNCHANGED <<sum, objects, stream>>
  \/ FlushDbCmd(1) /\ UNCHANGED <<sum, objects, stream>>

SpecKeys == Init /\ [][NextKeys]_vars

----------------------------------------------------------------------------
(* SpecGlob: one connection sets keys of one and two bytes and lists the   *)
(* keys that match a pattern                                               *)

NextGlob ==
  \/ \E k \in GlobKeys : SetCmd(1, k, V1) /\ UNCHANGED <<sum, objects, stream>>
  \/ \E k \in GlobKeys : DelCmd(1, <<k>>) /\ UNCHANGED <<sum, objects, stream>>
  \/ \E p \in Patterns : KeysCmd(1, p) /\ UNCHANGED <<sum, objects, stream>>

SpecGlob == Init /\ [][NextGlob]_vars

----------------------------------------------------------------------------
(* SpecHash: one connection sets, reads and deletes two fields of K1       *)

NextHash ==
  \/ \E f \in Fields, v \in Vals : HSetCmd(1, K1, f, v) /\ UNCHANGED <<sum, objects, stream>>
  \/ \E f \in Fields : HGetCmd(1, K1, f) /\ UNCHANGED <<sum, objects, stream>>
  \/ \E fs \in FieldLists : HDelCmd(1, K1, fs) /\ UNCHANGED <<sum, objects, stream>>

SpecHash == Init /\ [][NextHash]_vars

----------------------------------------------------------------------------
(* SpecSetNX: every connection runs SETNX on K1, which DEL makes absent    *)
(* again; the get and the set of one SETNX are two steps                   *)

NextSetNX ==
  \/ \E c \in Conns, v \in Vals : SetNXCmd(c, K1, v) /\ UNCHANGED <<sum, objects, stream>>
  \/ \E c \in Conns : SetNXSet(c) /\ UNCHANGED <<sum, objects, stream>>
  \/ \E c \in Conns : DelCmd(c, <<K1>>) /\ UNCHANGED <<sum, objects, stream>>

SpecSetNX == Init /\ [][NextSetNX]_vars

----------------------------------------------------------------------------
(* SpecAdd: every connection adds to the set K1, the hash K2 and the       *)
(* string K3, all absent at first                                          *)

NextAdd ==
  \/ \E c \in Conns, v \in Members : SAddGetMut(c, K1, <<v>>) /\ UNCHANGED <<sum, objects, stream>>
  \/ \E c \in Conns, f \in Fields : HSetGetMut(c, K2, f, V1) /\ UNCHANGED <<sum, objects, stream>>
  \/ \E c \in Conns, v \in Vals : AppendGetMut(c, K3, v) /\ UNCHANGED <<sum, objects, stream>>
  \/ \E c \in Conns : DataInsert(c) /\ UNCHANGED <<sum, objects, stream>>

SpecAdd == Init /\ [][NextAdd]_vars

----------------------------------------------------------------------------
(* SpecFrame: one client sends a pipeline of one or two requests, which    *)
(* reaches the handler in reads of any size                                *)

InitFrame ==
  \E all \in FramePipelines :
    /\ data = [d \in DbIds |-> EmptyMap]
    /\ data_expiration_time = [d \in DbIds |-> EmptyMap]
    /\ current_db = 0
    /\ now = 0
    /\ overflow_checks \in BOOLEAN
    /\ pc = [c \in Conns |-> "idle"]
    /\ loc = [c \in Conns |-> NoLoc]
    /\ reply = [c \in Conns |-> NoReply]
    /\ ops = 0
    /\ ev = NoEvent
    /\ pre = [data |-> data, exp |-> data_expiration_time]
    /\ selected = [c \in Conns |-> 0]
    /\ sum = Some(0)
    /\ items = <<>>
    /\ sorted_set = RedisSortedSet_new
    /\ stream = [c \in Conns |->
                   [buffer |-> <<>>, served |-> <<>>, written |-> <<>>, closed |-> FALSE,
                    wire |-> IF c = 1 THEN encode_all(all) ELSE <<>>,
                    all |-> IF c = 1 THEN all ELSE <<>>, split |-> FALSE]]

NextFrame ==
  \/ \E n \in 1 .. Len(stream[1].wire) : ReadBuf(1, n)
  \/ ReadEof(1)
  \/ HandleBytes(1)

SpecFrame == InitFrame /\ [][NextFrame]_vars

----------------------------------------------------------------------------
(* SpecSplit: connections select a database, store K1 with a deadline and  *)
(* flush; the two effects of SETEX and of FLUSHALL are two steps           *)

NextSplit ==
  \/ \E c \in Conns, i \in SelectArgs : SelectCmd(c, i) /\ UNCHANGED <<sum, objects, stream>>
  \/ \E c \in Conns, s \in SecondsArgs : SetExSet(c, K1, s, V1) /\ UNCHANGED <<sum, objects, stream>>
  \/ \E c \in Conns : SetExExpire(c) /\ UNCHANGED <<sum, objects, stream>>
  \/ \E c \in Conns : FlushAllData(c) /\ UNCHANGED <<sum, objects, stream>>
  \/ \E c \in Conns : FlushAllExpiration(c) /\ UNCHANGED <<sum, objects, stream>>

SpecSplit == Init /\ [][NextSplit]_vars

----------------------------------------------------------------------------
(* SpecLock: every connection runs commands over two keys, one shard lock  *)
(* at a time; K1 and K2 are absent at first or hold the set {M1}.  A       *)
(* connection whose next step is possible takes it in the end: its task is *)
(* scheduled again and a lock that stays free is acquired.                 *)

InitLock ==
  \E full \in BOOLEAN :
    /\ data = [d \in DbIds |->
                 IF d = 0 /\ full
                   THEN insert(insert(EmptyMap, K1, Set({M1})), K2, Set({M1}))
                   ELSE EmptyMap]
    /\ data_expiration_time = [d \in DbIds |-> EmptyMap]
    /\ current_db = 0
    /\ now = 0
    /\ overflow_checks \in BOOLEAN
    /\ pc = [c \in Conns |-> "idle"]
    /\ loc = [c \in Conns |-> NoLoc]
    /\ reply = [c \in Conns |-> NoReply]
    /\ ops = 0
    /\ ev = NoEvent
    /\ pre = [data |-> data, exp |-> data_expiration_time]
    /\ selected = [c \in Conns |-> 0]
    /\ sum = Some(0)
    /\ items = <<>>
    /\ sorted_set = RedisSortedSet_new
    /\ stream = [c \in Conns |-> NoStream]

NextLock ==
  \/ \E c \in Conns, cmd \in MultiArgs : MultiCmd(c, cmd) /\ UNCHANGED <<sum, objects, stream>>
  \/ \E c \in Conns : MultiStep(c)

SpecLock == InitLock /\ [][NextLock]_vars /\ \A c \in Conns : WF_vars(MultiStep(c))

----------------------------------------------------------------------------
(* SpecSelect: every connection selects a database and uses one key *)

NextSelect ==
  \/ \E c \in Conns, i \in SelectArgs : SelectCmd(c, i) /\ UNCHANGED <<sum, objects, stream>>
  \/ \E c \in Conns : SetCmd(c, K1, V1) /\ UNCHANGED <<sum, objects, stream>>
  \/ \E c \in Conns : GetCmd(c, K1) /\ UNCHANGED <<sum, objects, stream>>

SpecSelect == Init /\ [][NextSelect]_vars

----------------------------------------------------------------------------
(* SpecExpire: one connection sets deadlines on one key while time passes *)

NextExpire ==
  \/ SetCmd(1, K1, V1) /\ UNCHANGED <<sum, objects, stream>>
  \/ \E s \in SecondsArgs : SetExCmd(1, K1, s, V1) /\ UNCHANGED <<sum, objects, stream>>
  \/ \E s \in SecondsArgs : ExpireCmd(1, K1, s) /\ UNCHANGED <<sum, objects, stream>>
  \/ DelCmd(1, <<K1>>) /\ UNCHANGED <<sum, objects, stream>>
  \/ GetCmd(1, K1) /\ UNCHANGED <<sum, objects, stream>>
  \/ ExistsCmd(1, <<K1>>) /\ UNCHANGED <<sum, objects, stream>>
  \/ TypeCmd(1, K1) /\ UNCHANGED <<sum, objects, stream>>
  \/ TtlCmd(1, K1) /\ UNCHANGED <<sum, objects, stream>>
  \/ IncrCmd(1, K1) /\ UNCHANGED <<sum, objects, stream>>
  \/ AddValueInsert(1) /\ UNCHANGED <<sum, objects, stream>>
  \/ HGetCmd(1, K1, F1) /\ UNCHANGED <<sum, objects, stream>>
  \/ Tick /\ UNCHANGED <<sum, objects, stream>>

SpecExpire == Init /\ [][NextExpire]_vars

----------------------------------------------------------------------------
(* SpecSet: one connection sets one key with and without options, next to *)
(* the commands that give the key another tag or a deadline               *)

NextSet ==
  \/ SetCmd(1, K1, V1) /\ UNCHANGED <<sum, objects, stream>>
  \/ \E o \in SetOptArgs : SetOptCmd(1, K1, V2, o) /\ UNCHANGED <<sum, objects, stream>>
  \/ HSetCmd(1, K1, F1, V1) /\ UNCHANGED <<sum, objects, stream>>
  \/ ExpireCmd(1, K1, <<"1">>) /\ UNCHANGED <<sum, objects, stream>>
  \/ DelCmd(1, <<K1>>) /\ UNCHANGED <<sum, objects, stream>>
  \/ GetCmd(1, K1) /\ UNCHANGED <<sum, objects, stream>>
  \/ TtlCmd(1, K1) /\ UNCHANGED <<sum, objects, stream>>
  \/ Tick /\ UNCHANGED <<sum, objects, stream>>

SpecSet == Init /\ [][NextSet]_vars

----------------------------------------------------------------------------
(* SpecMGet: one connection reads several keys at once; K1 and K2 hold    *)
(* strings or hashes, K3 is never written                                 *)

NextMGet ==
  \/ \E k \in Keys, v \in Vals : SetCmd(1, k, v) /\ UNCHANGED <<sum, objects, stream>>
  \/ \E k \in Keys : HSetCmd(1, k, F1, V1) /\ UNCHANGED <<sum, objects, stream>>
  \/ \E ks \in MGetArgs : MGetCmd(1, ks) /\ UNCHANGED <<sum, objects, stream>>

SpecMGet == Init /\ [][NextMGet]_vars

----------------------------------------------------------------------------
(* SpecSets: the set commands on two keys, with a string to meet          *)

NextSets ==
  \/ \E k \in Keys, v \in Members : SAddCmd(1, k, <<v>>) /\ UNCHANGED <<sum, objects, stream>>
  \/ SetCmd(1, K2, V1) /\ UNCHANGED <<sum, objects, stream>>
  \/ \E k \in Keys : SMembersCmd(1, k) /\ UNCHANGED <<sum, objects, stream>>
  \/ \E ks \in SetKeyArgs : SInterCmd(1, ks) /\ UNCHANGED <<sum, objects, stream>>
  \/ \E ks \in SetKeyArgs : SUnionCmd(1, ks) /\ UNCHANGED <<sum, objects, stream>>
  \/ \E ks \in SetKeyArgs : SDiffCmd(1, ks) /\ UNCHANGED <<sum, objects, stream>>
  \/ \E k \in Keys : ZRangeCmd(1, k, <<"0">>, <<"-", "1">>) /\ UNCHANGED <<sum, objects, stream>>
  \/ \E k \in Keys, b \in {<<"2">>, <<"x">>} :
       ZRangeByScoreCmd(1, k, <<"1">>, b) /\ UNCHANGED <<sum, objects, stream>>

SpecSets == Init /\ [][NextSets]_vars

----------------------------------------------------------------------------
(* SpecList: the methods of one RedisList, from RedisList::new()          *)

NextList ==
  \/ \E v \in Vals : ListRPush(v)
  \/ \E v \in Vals : ListLPush(v)
  \/ ListLPop
  \/ ListRPop
  \/ ListLen
  \/ \E a \in IndexArgs, b \in IndexArgs : ListRange(a, b)
  \/ \E a \in IndexArgs, b \in IndexArgs : ListTrim(a, b)
  \/ \E a \in IndexArgs : ListSet(a, V2)
  \/ \E o \in OrdArgs : ListInsert(o, V1, V2)
  \/ \E a \in IndexArgs : LSetList(a, V2)
  \/ \E o \in OrdArgs : LInsertList(o, V1, V2)

SpecList == Init /\ [][NextList]_vars

----------------------------------------------------------------------------
(* SpecZSet: the methods of one RedisSortedSet, from RedisSortedSet::new() *)

NextZSet ==
  \/ \E p \in PairArgs : ZAddZSet(p)
  \/ \E m \in ZMembers : ZRemZSet(<<m>>)
  \/ \E a \in ZIndexArgs, b \in ZIndexArgs : ZRangeZSet(a, b)
  \/ \E a \in Scores, b \in Scores : ZRangeByScoreZSet(a, b)
  \/ \E m \in ZMembers : ZRankZSet(m)

SpecZSet == Init /\ [][NextZSet]_vars

----------------------------------------------------------------------------
(* SpecNet: connections that receive pipelined frames and answer them     *)

NextNet ==
  \/ \E c \in Conns, frames \in Pipelines : Receive(c, frames)
  \/ \E c \in Conns : HandleFrame(c)
  \/ \E c \in Conns : HandleInsert(c)
  \/ \E c \in Conns : Eof(c)

SpecNet == Init /\ [][NextNet]_vars

----------------------------------------------------------------------------
(* SpecArith: one connection runs the INCR family on K1 and HINCRBY on K2; *)
(* sum follows the exact value the increments on K1 add up to.             *)

NextArith ==
  \/ IncrCmd(1, K1) /\ sum' = Acc(sum, 1) /\ UNCHANGED <<objects, stream>>
  \/ DecrCmd(1, K1) /\ sum' = Acc(sum, 0 - 1) /\ UNCHANGED <<objects, stream>>
  \/ \E d \in ArithArgs : IncrByCmd(1, K1, d) /\ sum' = Acc(sum, Delta(1, d)) /\ UNCHANGED <<objects, stream>>
  \/ \E d \in ArithArgs : DecrByCmd(1, K1, d) /\ sum' = Acc(sum, Delta(0 - 1, d)) /\ UNCHANGED <<objects, stream>>
  \/ AddValueInsert(1) /\ UNCHANGED <<sum, objects, stream>>
  \/ \E d \in ArithArgs : HIncrByCmd(1, K2, F1, d) /\ UNCHANGED <<sum, objects, stream>>

SpecArith == Init /\ [][NextArith]_vars

----------------------------------------------------------------------------
(* SpecRace: K1 is absent or holds a decimal integer, and every connection *)
(* executes INCR K1 once; sum is the exact value K1 should then hold.      *)

InitRace ==
  \E v \in {None} \cup {Some(i) : i \in I64_MIN .. I64_MAX} :
    /\ data = [d \in DbIds |-> IF d = 0 /\ v.some
                                 THEN insert(EmptyMap, K1, String(to_string(v.v)))
                                 ELSE EmptyMap]
    /\ data_expiration_time = [d \in DbIds |-> EmptyMap]
    /\ current_db = 0
    /\ now = 0
    /\ overflow_checks \in BOOLEAN
    /\ pc = [c \in Conns |-> "idle"]
    /\ loc = [c \in Conns |-> NoLoc]
    /\ reply = [c \in Conns |-> NoReply]
    /\ ops = 0
    /\ ev = NoEvent
    /\ pre = [data |-> data, exp |-> data_expiration_time]
    /\ selected = [c \in Conns |-> 0]
    /\ sum = IF v.some THEN v ELSE Some(0)
    /\ items = <<>>
    /\ sorted_set = RedisSortedSet_new
    /\ stream = [c \in Conns |-> NoStream]
  /\ stream = [c \in Conns |-> NoStream]
  /\ sorted_set = RedisSortedSet_new
  /\ stream = [c \in Conns |-> NoStream]

NextRace ==
  \/ \E c \in Conns : reply[c] = NoReply /\ IncrCmd(c, K1) /\ sum' = Acc(sum, 1) /\ UNCHANGED <<objects, stream>>
  \/ \E c \in Conns : AddValueInsert(c) /\ UNCHANGED <<sum, objects, stream>>

SpecRace == InitRace /\ [][NextRace]_vars

----------------------------------------------------------------------------
(* Properties *)

HasToken(r, tok) == r.t = "error" /\ \E i \in 1 .. Len(r.line) : r.line[i] = tok

Named(keys) == {keys[i] : i \in 1 .. Len(keys)}

(* C1: a command on a key whose value has a tag the command does not      *)
(* accept replies WRONGTYPE and leaves the keyspace and the expiration    *)
(* table exactly as they were.                                            *)
C1_WrongTypeRejected ==
  LET Accepts == [o \in {"GET", "APPEND", "INCR", "HSET", "HGET", "HDEL",
                         "SADD", "SREM", "LPUSH", "ZADD"} |->
                    CASE o \in {"GET", "APPEND", "INCR"} -> "string"
                      [] o \in {"HSET", "HGET", "HDEL"} -> "hash"
                      [] o \in {"SADD", "SREM"} -> "set"
                      [] o = "LPUSH" -> "list"
                      [] OTHER -> "zset"]
  IN  (ev.op \in DOMAIN Accepts /\ ev.was # "none" /\ ev.was # Accepts[ev.op])
        => /\ HasToken(ev.reply, "WRONGTYPE")
           /\ data = pre.data
           /\ data_expiration_time = pre.exp

(* C2: once every connection that ran INCR K1 has its reply, K1 holds the *)
(* initial value plus the number of INCRs, and the replies are the        *)
(* distinct values in between (no overflow involved).                     *)
C2_NoLostIncrement ==
  LET done == {c \in Conns : reply[c] # NoReply}
  IN  (ops > 0 /\ sum.some /\ \A c \in Conns : pc[c] = "idle")
        => /\ get(data[0], K1) = Some(to_string(sum.v))
           /\ {reply[c] : c \in done} = {format_integer(sum.v - i) : i \in 0 .. (ops - 1)}
           /\ Cardinality(done) = ops

(* C3: a command of a connection reads and writes the database which that *)
(* connection itself selected (database 0 if it never issued SELECT).     *)
C3_SelectIsPerConnection ==
  ev.op \in {"GET", "SET"} => ev.db = selected[ev.c]

(* C4: an access to a key whose deadline is at or before now behaves as   *)
(* if the key were absent, and removes the key from the keyspace and from *)
(* the expiration table.                                                  *)
C4_LazyExpiration ==
  LET k == IF ev.op = "EXISTS" THEN ev.keys[1] ELSE ev.key
      absent == CASE ev.op \in {"GET", "HGET"} -> format_null
                  [] ev.op = "EXISTS" -> format_integer(0)
                  [] ev.op = "TYPE" -> format_simple_string("none")
                  [] ev.op = "TTL" -> format_integer(0 - 2)
                  [] OTHER -> format_integer(1)
  IN  (/\ ev.op \in {"GET", "HGET", "EXISTS", "TYPE", "TTL", "INCR"}
       /\ contains_key(pre.exp[ev.db], k)
       /\ pre.exp[ev.db][k] <= now)
        => /\ ev.reply = absent
           /\ ~contains_key(data_expiration_time[ev.db], k)
           /\ ev.op # "INCR" => ~contains_key(data[ev.db], k)

(* C5: every key of a database's expiration table is a key of that        *)
(* database's keyspace.                                                   *)
C5_DeadlinesOnlyForKeys ==
  \A d \in DbIds : \A k \in DOMAIN data_expiration_time[d] : contains_key(data[d], k)

(* C6: from K1 absent, while no exact result leaves the i64 range, every  *)
(* INCR, DECR, INCRBY d and DECRBY d replies the running sum of the       *)
(* increments, and K1 stores that sum in decimal.                         *)
C6_RunningSum ==
  LET op == IF ev.op = "PANIC" THEN ev.after.op ELSE ev.op
  IN  (/\ ev.key = K1
       /\ op \in {"INCR", "DECR", "INCRBY", "DECRBY"}
       /\ op \in {"INCRBY", "DECRBY"} => parse_i64(ev.val).ok
       /\ sum.some)
        => /\ ev.reply = format_integer(sum.v)
           /\ get(data[ev.db], K1) = Some(to_string(sum.v))

(* C7: an INCR, DECR, INCRBY, DECRBY or HINCRBY whose exact result is     *)
(* outside the i64 range replies the integer error, does not abort, and   *)
(* leaves the stored value as it was.                                     *)
C7_OverflowIsAnError ==
  LET op == IF ev.op = "PANIC" THEN ev.after.op ELSE ev.op
      d == CASE op = "INCR" -> 1
             [] op = "DECR" -> 0 - 1
             [] op = "DECRBY" -> Delta(0 - 1, ev.val)
             [] OTHER -> Delta(1, ev.val)
      m == pre.data[ev.db]
      stored == IF ~contains_key(m, ev.key) THEN <<"0">>
                ELSE IF m[ev.key].tag = "string" THEN m[ev.key].s
                ELSE IF m[ev.key].tag = "hash" /\ contains_key(m[ev.key].h, F1)
                  THEN m[ev.key].h[F1]
                ELSE <<"0">>
  IN  (/\ op \in {"INCR", "DECR", "INCRBY", "DECRBY", "HINCRBY"}
       /\ op \in {"INCRBY", "DECRBY", "HINCRBY"} => parse_i64(ev.val).ok
       /\ parse_i64(stored).ok
       /\ ~InRange(parse_i64(stored).v + d))
        => /\ ev.op # "PANIC"
           /\ HasToken(ev.reply, "value is not an integer or out of range")
           /\ data = pre.data

(* C8: GET K right after SET K B replies B, and TYPE K right after        *)
(* SET K B replies string, whatever K held before the SET.                *)
C8_SetThenGet ==
  (/\ ev.op \in {"GET", "TYPE"}
   /\ ev.after.op = "SET"
   /\ ev.after.key = ev.key
   /\ ev.after.db = ev.db)
    => ev.reply = IF ev.op = "GET" THEN format_bulk_string(ev.after.val)
                  ELSE format_simple_string("string")

(* a GET answers B right after SET K B replaced a hash *)
C8_Witness ==
  /\ ev.op = "GET"
  /\ ev.after.op = "SET"
  /\ ev.after.key = ev.key
  /\ ev.after.was = "hash"
  /\ ev.reply = format_bulk_string(V2)

(* C9: DEL replies the number of named keys that were present, afterwards *)
(* no named key is present and no other key has changed, and a DEL of the *)
(* same keys right after it replies 0.                                    *)
C9_DelCountsAndRemoves ==
  ev.op = "DEL" =>
    /\ ev.reply = format_integer(Cardinality({k \in Named(ev.keys) :
                                               contains_key(pre.data[ev.db], k)}))
    /\ \A k \in Named(ev.keys) : ~contains_key(data[ev.db], k)
    /\ \A k \in (DOMAIN pre.data[ev.db]) \ Named(ev.keys) :
         contains_key(data[ev.db], k) /\ data[ev.db][k] = pre.data[ev.db][k]
    /\ \A d \in DbIds \ {ev.db} : data[d] = pre.data[d]
    /\ (ev.after.op = "DEL" /\ ev.after.keys = ev.keys /\ ev.after.db = ev.db)
         => ev.reply = format_integer(0)

(* DEL K1 replied 1 and the DEL K1 right after it replied 0 *)
C9_Witness ==
  /\ ev.op = "DEL"
  /\ ev.keys = <<K1>>
  /\ ev.after.op = "DEL"
  /\ ev.after.keys = <<K1>>
  /\ ev.after.db = ev.db
  /\ ev.after.reply = format_integer(1)
  /\ ev.reply = format_integer(0)

(* C10: FLUSHDB empties the keyspace and the expiration table of the      *)
(* selected database and changes no other database; FLUSHALL empties      *)
(* them in every database.                                                *)
C10_FlushScope ==
  /\ ev.op = "FLUSHDB" =>
       /\ data[ev.db] = EmptyMap
       /\ data_expiration_time[ev.db] = EmptyMap
       /\ \A d \in DbIds \ {ev.db} :
            data[d] = pre.data[d] /\ data_expiration_time[d] = pre.exp[d]
  /\ ev.op = "FLUSHALL" =>
       \A d \in DbIds : data[d] = EmptyMap /\ data_expiration_time[d] = EmptyMap

(* C11: HSET, LPUSH, RPUSH, SADD or ZADD on an absent key creates a value *)
(* of the command's tag and replies the number of elements it was given.  *)
C11_CreatesContainer ==
  LET Creates == [o \in {"HSET", "LPUSH", "RPUSH", "SADD", "ZADD"} |->
                    CASE o = "HSET" -> "hash"
                      [] o \in {"LPUSH", "RPUSH"} -> "list"
                      [] o = "SADD" -> "set"
                      [] OTHER -> "zset"]
  IN  (ev.op \in DOMAIN Creates /\ ev.was = "none")
        => /\ data_type(data[ev.db], ev.key) = Creates[ev.op]
           /\ ev.reply = format_integer(Len(ev.keys))

(* C12: SET with both NX and XX replies a syntax error and changes        *)
(* neither the keyspace nor the expiration table.                         *)
C12_NxWithXxRejected ==
  LET opts == parse_key_value_options_command(ev.keys)
  IN  (ev.op = "SETOPT" /\ opts.nx /\ opts.xx)
        => /\ HasToken(ev.reply, "syntax error")
           /\ data = pre.data
           /\ data_expiration_time = pre.exp

(* C13: SET NX on a key that holds a value of any tag, and SET XX on an   *)
(* absent key, reply null and change nothing; any other SET with only NX  *)
(* or only XX stores the value and replies OK.                            *)
C13_NxXxConditions ==
  LET opts == parse_key_value_options_command(ev.keys)
      refuse == (opts.nx /\ ev.was # "none") \/ (opts.xx /\ ev.was = "none")
  IN  (ev.op = "SETOPT" /\ opts.nx # opts.xx)
        => IF refuse
             THEN /\ ev.reply = format_null
                  /\ data = pre.data
                  /\ data_expiration_time = pre.exp
             ELSE /\ ev.reply = format_simple_string("OK")
                  /\ get(data[ev.db], ev.key) = Some(ev.val)

(* C14: a SET without EX, PX and KEEPTTL that replies OK leaves the key   *)
(* without a deadline; one with KEEPTTL leaves the deadline as it was.    *)
C14_SetClearsDeadline ==
  LET opts == IF ev.op = "SET" THEN NoOptions
              ELSE parse_key_value_options_command(ev.keys)
      x == data_expiration_time[ev.db]
  IN  (/\ ev.op \in {"SET", "SETOPT"}
       /\ ev.reply = format_simple_string("OK")
       /\ ~opts.ex.some /\ ~opts.px.some)
        => IF opts.keepttl
             THEN x = pre.exp[ev.db]
             ELSE ~contains_key(x, ev.key) /\ ttl(x, ev.key, now) = 0 - 1

(* C15: TTL replies -2 for a key absent from the keyspace, -1 for a key   *)
(* without a deadline, and otherwise the seconds left until the deadline. *)
C15_TtlReply ==
  LET x == pre.exp[ev.db]
  IN  ev.op = "TTL" =>
        IF ~contains_key(pre.data[ev.db], ev.key)
          THEN ev.reply = format_integer(0 - 2)
        ELSE IF ~contains_key(x, ev.key)
          THEN ev.reply = format_integer(0 - 1)
        ELSE x[ev.key] >= now => ev.reply = format_integer(x[ev.key] - now)

(* C16: EXPIRE with a valid number of seconds replies 1 and sets the      *)
(* deadline of a key that exists, and replies 0 and changes nothing for   *)
(* a key that is absent.                                                  *)
C16_ExpireReply ==
  (ev.op = "EXPIRE" /\ parse_u64(ev.val).ok) =>
    IF ev.was # "none"
      THEN /\ ev.reply = format_integer(1)
           /\ contains_key(data_expiration_time[ev.db], ev.key)
           /\ data_expiration_time[ev.db][ev.key] = now + parse_u64(ev.val).v
      ELSE /\ ev.reply = format_integer(0)
           /\ data = pre.data
           /\ data_expiration_time = pre.exp

(* C17: SELECT i replies OK and makes i the current database exactly when *)
(* i is an integer with 0 <= i < DbNum; otherwise it replies the          *)
(* invalid-index error and the current database stays as it was.          *)
C17_SelectValidatesIndex ==
  LET i == ParseInt(ev.val, 0, DbNum - 1)
  IN  ev.op = "SELECT" =>
        IF i.ok
          THEN ev.reply = format_simple_string("OK") /\ current_db = i.v
          ELSE HasToken(ev.reply, "invalid DB index") /\ current_db = ev.db

(* C18: MGET replies an array with one element per requested key, in      *)
(* request order: the bulk string of the key's bytes when the key holds a *)
(* string, the null bulk string otherwise; nothing is changed.            *)
C18_MGetElements ==
  LET m == pre.data[ev.db]
      e == ev.reply.elements
  IN  ev.op = "MGET" =>
        /\ ev.reply.t = "array"
        /\ Len(e) = Len(ev.keys)
        /\ \A i \in 1 .. Len(ev.keys) :
             e[i] = IF contains_key(m, ev.keys[i]) /\ m[ev.keys[i]].tag = "string"
                      THEN format_bulk_string(m[ev.keys[i]].s)
                      ELSE format_null
        /\ data = pre.data
        /\ data_expiration_time = pre.exp

(* MGET K1 K2 K3 answered a string, then null for a hash and for an       *)
(* absent key                                                             *)
C18_Witness ==
  /\ ev.op = "MGET"
  /\ ev.keys = <<K1, K2, K3>>
  /\ data_type(data[ev.db], K2) = "hash"
  /\ ev.reply = format_array_bytes(<<format_bulk_string(V2), format_null, format_null>>)

(* C19: for a list of length len and all integers start and stop, range    *)
(* returns the elements at the normalized positions (a negative index has  *)
(* len added, start is clamped to 0 and stop to len - 1, empty when        *)
(* start > stop or start >= len), and never fails, indices below -len      *)
(* included.                                                               *)
C19_LRangeNormalised ==
  LET q == ev.keys
      len == Len(q)
      start == ev.val[1]
      stop == ev.val[2]
      s == Max(IF start < 0 THEN len + start ELSE start, 0)
      e == Min(IF stop < 0 THEN len + stop ELSE stop, len - 1)
      expected == IF s > e \/ s >= len THEN <<>> ELSE SubSeq(q, s + 1, e + 1)
  IN  /\ ev.op = "range" => ev.reply = Vec(expected)
      /\ ~(ev.op = "PANIC" /\ ev.after.op = "range")

(* C20: every list operation leaves the list equal to the reference        *)
(* sequence after the same operation (lpush prepends, rpush appends,       *)
(* lpop/rpop remove the head/tail, insert puts the value next to the first *)
(* pivot, trim keeps the normalized inclusive range, set replaces the      *)
(* element at a valid index), range(0, -1) returns that sequence and len   *)
(* its length.                                                             *)
C20_ListRefinesSequence ==
  LET q == ev.keys
      len == Len(q)
      Norm(i) == IF i < 0 THEN len + i ELSE i
      Pos(x) == CHOOSE i \in 1 .. len : q[i] = x /\ \A j \in 1 .. (i - 1) : q[j] # x
      Has(x) == \E i \in 1 .. len : q[i] = x
      Kept(a, b) == LET s == Max(Norm(a), 0)
                        e == Min(Norm(b), len - 1)
                    IN  IF s > e \/ s >= len THEN <<>> ELSE SubSeq(q, s + 1, e + 1)
  IN  /\ ev.op = "rpush" => items = q \o <<ev.val[1]>>
      /\ ev.op = "lpush" => items = <<ev.val[1]>> \o q
      /\ ev.op = "lpop" => items = (IF q = <<>> THEN q ELSE Tail(q))
      /\ ev.op = "rpop" => items = (IF q = <<>> THEN q ELSE SubSeq(q, 1, len - 1))
      /\ ev.op = "insert" /\ ev.val[1] = "BEFORE" /\ Has(ev.val[2]) =>
           items = SubSeq(q, 1, Pos(ev.val[2]) - 1) \o <<ev.val[3]>>
                     \o SubSeq(q, Pos(ev.val[2]), len)
      /\ ev.op = "insert" /\ ev.val[1] = "AFTER" /\ Has(ev.val[2]) =>
           items = SubSeq(q, 1, Pos(ev.val[2])) \o <<ev.val[3]>>
                     \o SubSeq(q, Pos(ev.val[2]) + 1, len)
      /\ ev.op = "insert" /\ ~Has(ev.val[2]) => items = q
      /\ ev.op = "trim" => items = Kept(ev.val[1], ev.val[2])
      /\ ev.op = "set" =>
           items = (IF 0 <= Norm(ev.val[1]) /\ Norm(ev.val[1]) < len
                      THEN [q EXCEPT ![Norm(ev.val[1]) + 1] = ev.val[2]] ELSE q)
      /\ ev.op = "range" /\ ev.val = <<0, 0 - 1>> => ev.reply = Vec(items)
      /\ ev.op = "len" => ev.reply = format_integer(Len(items))
      /\ ~(ev.op = "PANIC" /\ ev.after.op = "trim")
      /\ ~(ev.op = "PANIC" /\ ev.after.op = "range" /\ ev.val = <<0, 0 - 1>>)

(* C21: LSET on a list of length len replaces the element at the           *)
(* normalized index and replies OK when -len <= i < len; for every other i *)
(* it replies 'ERR index out of range' and the list is unchanged.          *)
C21_LSetIndexChecked ==
  LET q == ev.keys
      len == Len(q)
      i == ev.val[1]
      n == IF i < 0 THEN len + i ELSE i
  IN  ev.op = "lset" =>
        IF 0 - len <= i /\ i < len
          THEN items = [q EXCEPT ![n + 1] = ev.val[2]]
               /\ ev.reply = format_simple_string("OK")
          ELSE HasToken(ev.reply, "index out of range") /\ items = q

(* C22: LINSERT BEFORE|AFTER pivot v inserts v immediately before/after    *)
(* the first occurrence of pivot and replies the new length of the list;   *)
(* when pivot does not occur it replies -1 and the list is unchanged.      *)
C22_LInsertReply ==
  LET q == ev.keys
      len == Len(q)
      pivot == ev.val[2]
      Has == \E i \in 1 .. len : q[i] = pivot
      Pos == CHOOSE i \in 1 .. len : q[i] = pivot /\ \A j \in 1 .. (i - 1) : q[j] # pivot
  IN  ev.op = "linsert" /\ ev.val[1] \in {"BEFORE", "AFTER"} =>
        IF Has
          THEN /\ items = (IF ev.val[1] = "BEFORE"
                             THEN SubSeq(q, 1, Pos - 1) \o <<ev.val[3]>> \o SubSeq(q, Pos, len)
                             ELSE SubSeq(q, 1, Pos) \o <<ev.val[3]>> \o SubSeq(q, Pos + 1, len))
               /\ ev.reply = format_integer(len + 1)
          ELSE ev.reply = format_integer(0 - 1) /\ items = q

(* C23: when every named key holds a set, SINTER replies exactly the       *)
(* members that belong to every named set, each once; SUNION each member   *)
(* of any named set once; SDIFF the members of the first set that belong   *)
(* to none of the others.                                                  *)
C23_SetAlgebra ==
  LET m == data[ev.db]
      ks == ev.keys
      n == Len(ks)
      AllSets == \A i \in 1 .. n : data_type(m, ks[i]) = "set"
      S(i) == m[ks[i]].m
      All == UNION {S(i) : i \in 1 .. n}
      Once(expected) == /\ ev.reply.t = "array"
                        /\ Elements(ev.reply.elements) = expected
                        /\ Len(ev.reply.elements) = Cardinality(expected)
  IN  AllSets =>
        /\ ev.op = "SINTER" => Once({x \in All : \A i \in 1 .. n : x \in S(i)})
        /\ ev.op = "SUNION" => Once(All)
        /\ ev.op = "SDIFF" => Once({x \in S(1) : \A i \in 2 .. n : x \notin S(i)})

(* C25: ZADD replies the number of members that were not in the sorted set *)
(* before the command; a pair naming an existing member updates its score  *)
(* and is not counted.                                                     *)
C25_ZAddCountsNew ==
  LET pair == ev.val
      named == {pair[i][2] : i \in 1 .. Len(pair)}
      Last(m) == CHOOSE i \in 1 .. Len(pair) :
                   pair[i][2] = m /\ \A j \in (i + 1) .. Len(pair) : pair[j][2] # m
  IN  ev.op = "zadd" =>
        /\ ev.reply = format_integer(Cardinality(named \ DOMAIN ev.keys.members))
        /\ \A m \in named : sorted_set_zscore(sorted_set, m) = Some(pair[Last(m)][1])

(* C26: after any sequence of ZADD and ZREM, ZRANGE 0 -1 lists every       *)
(* current member exactly once, in ascending order of (score, member),     *)
(* the score being the one ZSCORE reports; ZRANK m is m's position in that *)
(* list.                                                                   *)
C26_ZRangeOrdered ==
  LET all == sorted_set_zrange(sorted_set, 0, 0 - 1, overflow_checks)
      score(m) == sorted_set_zscore(sorted_set, m).v
      Before(a, b) == \/ partial_cmp(score(a), score(b)) = Some(Less)
                      \/ /\ partial_cmp(score(a), score(b)) = Some(Equal)
                         /\ bytes_cmp(a, b) = Less
  IN  /\ ~all.panic
      /\ Elements(all.v) = DOMAIN sorted_set.members
      /\ Len(all.v) = Cardinality(DOMAIN sorted_set.members)
      /\ \A i, j \in 1 .. Len(all.v) : i < j => ~Before(all.v[j], all.v[i])
      /\ ev.op = "zrank" =>
           IF contains_key(sorted_set.members, ev.val[1])
             THEN ev.reply.t = "integer" /\ all.v[ev.reply.n + 1] = ev.val[1]
             ELSE ev.reply = format_null

(* C27: ZRANGEBYSCORE min max replies exactly the members whose score      *)
(* satisfies min <= score <= max, in ascending (score, member) order; when *)
(* min > max the reply is an empty array.                                  *)
C27_ZRangeByScore ==
  LET z == ev.keys
      min == ev.val[1]
      max == ev.val[2]
      Within(x) == /\ partial_cmp(min, x) \in {Some(Less), Some(Equal)}
                   /\ partial_cmp(x, max) \in {Some(Less), Some(Equal)}
      expected == {m \in DOMAIN z.members : Within(z.members[m])}
      Before(a, b) == \/ partial_cmp(z.members[a], z.members[b]) = Some(Less)
                      \/ /\ partial_cmp(z.members[a], z.members[b]) = Some(Equal)
                         /\ bytes_cmp(a, b) = Less
  IN  /\ ev.op = "zrangebyscore" =>
           /\ ev.reply.t = "array"
           /\ Elements(ev.reply.elements) = expected
           /\ \A i, j \in 1 .. Len(ev.reply.elements) :
                i < j => Before(ev.reply.elements[i], ev.reply.elements[j])
      /\ ~(ev.op = "PANIC" /\ ev.after.op = "zrangebyscore")

(* C24: a read command treats an absent key as an empty collection:        *)
(* ZRANGEBYSCORE, ZRANGE and SMEMBERS naming an absent key reply an empty  *)
(* array, SINTER, SUNION and SDIFF naming only absent keys reply an empty  *)
(* array, and WRONGTYPE is replied only when a named key is present with a *)
(* tag the command does not accept.                                        *)
C24_AbsentReadsAsEmpty ==
  LET m == data[ev.db]
      ks == ev.keys
      accepted == IF ev.op \in {"ZRANGE", "ZRANGEBYSCORE"} THEN "zset" ELSE "set"
      parsed == IF ev.op = "ZRANGE" THEN parse_i64(ev.val[1]).ok /\ parse_i64(ev.val[2]).ok
                ELSE IF ev.op = "ZRANGEBYSCORE"
                  THEN parse_f64(ev.val[1]).ok /\ parse_f64(ev.val[2]).ok
                ELSE TRUE
  IN  ev.op \in {"ZRANGEBYSCORE", "ZRANGE", "SMEMBERS", "SINTER", "SUNION", "SDIFF"} =>
        /\ HasToken(ev.reply, "WRONGTYPE") =>
             \E i \in 1 .. Len(ks) : data_type(m, ks[i]) \notin {"none", accepted}
        /\ parsed /\ (\A i \in 1 .. Len(ks) : data_type(m, ks[i]) = "none") =>
             ev.reply = format_array_bytes(<<>>)

(* C28: on one connection every complete request frame produces exactly    *)
(* one reply, in the order received: once the handler is back at its       *)
(* loop, the frames decoded and the replies written are equally many and   *)
(* the last reply written is the reply of the last command; a connection   *)
(* whose last reply is an error is not closed while requests are pending.  *)
C28_OneReplyPerFrame ==
  \A c \in Conns :
    LET s == stream[c]
    IN  /\ pc[c] # "add_value_insert" => Len(s.written) = Len(s.served)
        /\ ev.c = c /\ ev.reply # NoReply => s.written # <<>> /\ s.written[Len(s.written)] = ev.reply
        /\ s.written # <<>> /\ s.written[Len(s.written)].t = "error" /\ s.buffer # <<>> =>
             ~s.closed

(* C29: when a connection receives QUIT, '+OK' is written to it before it  *)
(* is closed, and it is then closed.                                       *)
C29_QuitRepliesOk ==
  \A c \in Conns :
    LET s == stream[c]
    IN  s.served # <<>> /\ s.served[Len(s.served)].name = "QUIT" =>
          /\ s.closed
          /\ Len(s.written) = Len(s.served)
          /\ s.written[Len(s.written)] = format_simple_string("OK")

(* C30: for every command and every reachable keyspace state, dispatch     *)
(* returns a reply frame: no command aborts the handler of its connection. *)
C30_DispatchReplies ==
  /\ \A c \in Conns : pc[c] # "panicked"
  /\ ev.op # "PANIC"

(* C31: every error reply is one line of a single class token followed by  *)
(* the message: the integer error is exactly ERR 'value is not an integer  *)
(* or out of range' and the type error is exactly WRONGTYPE 'Operation     *)
(* against a key holding the wrong kind of value'.                         *)
C31_ErrorReplyShape ==
  ev.reply.t = "error" =>
    /\ Len(ev.reply.line) = Len(WrongType)
    /\ HasToken(ev.reply, InvalidInteger[Len(InvalidInteger)]) => ev.reply.line = InvalidInteger
    /\ HasToken(ev.reply, "WRONGTYPE") => ev.reply.line = WrongType

RECURSIVE glob_match(_, _)
(* the glob the claim describes: '*' any run of bytes, '?' exactly one     *)
(* byte, any other byte itself, over the whole key                         *)
glob_match(p, k) ==
  IF p = <<>> THEN k = <<>>
  ELSE IF Head(p) = "*"
    THEN glob_match(Tail(p), k) \/ (k # <<>> /\ glob_match(p, Tail(k)))
  ELSE /\ k # <<>>
       /\ Head(p) = "?" \/ Head(p) = Head(k)
       /\ glob_match(Tail(p), Tail(k))

(* C32: KEYS replies exactly the keys of the selected database that match  *)
(* the whole pattern as a glob, each once; with no key in the database the *)
(* reply is the empty array.                                               *)
C32_KeysMatchesGlob ==
  ev.op = "KEYS" =>
    LET m == data[ev.db]
        expected == {k \in DOMAIN m : glob_match(ev.val, k)}
    IN  /\ ev.reply.t = "array"
        /\ Len(ev.reply.elements) = Cardinality(expected)
        /\ Elements(ev.reply.elements) = {format_bulk_string(k) : k \in expected}

(* C33: on a key that is absent or holds a hash, HSET f v replies 1 when f *)
(* was absent and 0 when it replaced a value, and the hash then maps f to  *)
(* v, which is what HGET f replies; HDEL replies the number of named       *)
(* fields that existed, removes them and leaves every other field as it    *)
(* was; on an absent hash HDEL replies 0.                                  *)
C33_HashFieldOps ==
  LET Fields_(m, k) == IF data_type(m, k) = "hash" THEN m[k].h ELSE EmptyMap
      h0 == Fields_(pre.data[ev.db], ev.key)
      h1 == Fields_(data[ev.db], ev.key)
  IN  ev.was \in {"hash", "none"} =>
        /\ ev.op = "HSET" =>
             /\ ev.reply = format_integer(IF contains_key(h0, ev.keys[1]) THEN 0 ELSE 1)
             /\ DOMAIN h1 = DOMAIN h0 \cup {ev.keys[1]}
             /\ \A f \in DOMAIN h1 : h1[f] = IF f = ev.keys[1] THEN ev.val ELSE h0[f]
        /\ ev.op = "HGET" =>
             /\ ev.reply = IF contains_key(h1, ev.keys[1])
                             THEN format_bulk_string(h1[ev.keys[1]]) ELSE format_null
             /\ data = pre.data
        /\ ev.op = "HDEL" =>
             /\ ev.reply = format_integer(Cardinality(Named(ev.keys) \cap DOMAIN h0))
             /\ DOMAIN h1 = DOMAIN h0 \ Named(ev.keys)
             /\ \A f \in DOMAIN h1 : h1[f] = h0[f]

(* an HDEL that names one present field twice replied 1 and left the other *)
(* field in the hash                                                       *)
C33_Witness ==
  /\ ev.op = "HDEL"
  /\ ev.keys = <<F1, F1>>
  /\ ev.reply = format_integer(1)
  /\ data_type(data[ev.db], ev.key) = "hash"
  /\ DOMAIN data[ev.db][ev.key].h = {F2}

(* C34: a frame whose command name is not known is replied 'unknown        *)
(* command', a frame that names a known command with the wrong number of   *)
(* arguments is replied 'wrong number of arguments for command', and in    *)
(* both cases the keyspace and the expiration table stay as they were.     *)
C34_ParseErrors ==
  ev.op = "UNKNOWN" =>
    /\ data = pre.data
    /\ data_expiration_time = pre.exp
    /\ ev.val[1] \notin DOMAIN Arity => HasToken(ev.reply, UnknownCommand[Len(UnknownCommand)])
    /\ ev.val[1] \in DOMAIN Arity =>
         HasToken(ev.reply, WrongNumberOfArguments[Len(WrongNumberOfArguments)])

(* C35: in every state reached by ZADD and ZREM the two indices of a       *)
(* sorted set agree: the ordered index holds exactly one (score, member)   *)
(* pair for each member of the map, with the score the map holds, and no   *)
(* pair of a removed member or of a superseded score; ZCARD is the size of *)
(* both.                                                                   *)
C35_IndicesAgree ==
  LET t == sorted_set.ordered_members
      mem == sorted_set.members
  IN  /\ Len(t) = Cardinality(DOMAIN mem)
      /\ {t[i] : i \in 1 .. Len(t)} = {<<mem[m], m>> : m \in DOMAIN mem}
      /\ sorted_set_zcard(sorted_set) = Len(t)

(* C36: of the connections that run SETNX on an absent key at the same     *)
(* time exactly one replies 1 and the key holds its value: a SETNX that    *)
(* replies 1 wrote a key that was absent until its write and the key now   *)
(* holds its value, and a SETNX that replies 0 found a value and left the  *)
(* keyspace as it was.                                                     *)
C36_SetNXOneWinner ==
  ev.op = "SETNX" =>
    /\ ev.reply = format_integer(1) =>
         /\ ev.was = "none"
         /\ get(data[ev.db], ev.key) = Some(ev.val)
    /\ ev.reply = format_integer(0) =>
         /\ ev.was # "none"
         /\ data = pre.data

(* C37: no contribution of connections that add to the same key at the     *)
(* same time is lost: when SADD, HSET or APPEND has replied, the container *)
(* under the key is the one that was there just before its write (none on *)
(* an absent key) with the command's member, field or bytes added.         *)
C37_NoLostContribution ==
  LET m0 == pre.data[ev.db]
      m1 == data[ev.db]
      k == ev.key
  IN  /\ ev.op = "SADD" /\ ev.was \in {"none", "set"} =>
           /\ data_type(m1, k) = "set"
           /\ m1[k].m = (IF ev.was = "set" THEN m0[k].m ELSE {}) \cup Named(ev.keys)
      /\ ev.op = "HSET" /\ ev.was \in {"none", "hash"} =>
           /\ data_type(m1, k) = "hash"
           /\ m1[k].h = insert(IF ev.was = "hash" THEN m0[k].h ELSE EmptyMap,
                               ev.keys[1], ev.val)
      /\ ev.op = "APPEND" /\ ev.was \in {"none", "string"} =>
           /\ data_type(m1, k) = "string"
           /\ m1[k].s = (IF ev.was = "string" THEN m0[k].s ELSE <<>>) \o ev.val

(* C38: no command acquires the handle of a key while it holds the handle  *)
(* of another: DEL, EXISTS, MGET, MSET, SINTER, SUNION and SDIFF hold at   *)
(* most one handle and none when they turn to the next key, so commands   *)
(* over several keys that run at the same time never block each other for *)
(* good and each of them returns in the end.                               *)
C38_MultiKeyCompletes ==
  /\ [](\A c \in Conns :
          /\ Cardinality(Holds(c)) <= 1
          /\ pc[c] = "multi" /\ loc[c].at = "lock" => Holds(c) = {})
  /\ \A c \in Conns : (pc[c] = "multi") ~> (pc[c] = "idle")

(* one connection holds the exclusive handle of K2 in MSET K2 K3 while    *)
(* another, in MSET K1 K2, has set K1 and turns to K2                      *)
C38_Witness ==
  \E c, d \in Conns :
    /\ pc[c] = "multi" /\ loc[c].op = "MSET" /\ loc[c].keys = <<K2, K3>>
    /\ Holds(c) = {[shard |-> determine_shard(K2), write |-> TRUE]}
    /\ pc[d] = "multi" /\ loc[d].op = "MSET" /\ loc[d].keys = <<K2>>
    /\ loc[d].at = "lock"

(* C39: all effects of one command apply to one database: the deadline of  *)
(* SETEX is written under the index its value was written under, and the   *)
(* expiration table FLUSHALL clears is the one of the keyspace it cleared,  *)
(* also when another connection selects a database between the two.        *)
C39_OneDatabasePerCommand ==
  ev.op \in {"SETEX", "FLUSHALL"} /\ ev.after # NoAfter => ev.after.db = ev.db

RECURSIVE Sequential(_, _, _)
(* the keyspace and the replies of the requests fs executed one after the  *)
(* other on the keyspace m, up to a QUIT                                   *)
Sequential(fs, m, out) ==
  IF fs = <<>> THEN [data |-> m, written |-> out]
  ELSE LET f == Head(fs)
       IN  IF ~parse(f).some
             THEN Sequential(Tail(fs), m, Append(out, format_error(UnknownCommand)))
           ELSE IF f.name = "QUIT" THEN [data |-> m, written |-> out]
           ELSE IF f.name = "GET"
             THEN Sequential(Tail(fs), m,
                             Append(out, IF get(m, f.args[1]).some
                                           THEN format_bulk_string(get(m, f.args[1]).v)
                                           ELSE format_null))
           ELSE Sequential(Tail(fs), set(m, f.args[1], f.args[2]),
                           Append(out, format_simple_string("OK")))

(* C40: the replies and the keyspace of a pipelined stream do not depend   *)
(* on how its bytes are split over the reads: the frames executed are the  *)
(* first frames sent, each once and in order, with the replies and the     *)
(* keyspace of executing them one after the other; exactly the bytes of    *)
(* the executed frames have left the buffer; and once everything sent has  *)
(* arrived and no complete frame is buffered, every frame was executed.    *)
C40_FramingIndependent ==
  LET s == stream[1]
      n == Len(s.served)
      run == Sequential(s.served, EmptyMap, <<>>)
  IN  /\ n <= Len(s.all)
      /\ s.served = SubSeq(s.all, 1, n)
      /\ s.buffer \o s.wire = encode_all(SubSeq(s.all, n + 1, Len(s.all)))
      /\ data[0] = run.data
      /\ s.written = run.written
      /\ ~s.closed /\ s.wire = <<>> /\ decode(s.buffer) = Incomplete => n = Len(s.all)

(* both requests of SET k a, GET k were executed and replied although a    *)
(* read ended inside a frame                                               *)
C40_Witness ==
  /\ stream[1].all = <<Request("SET", <<K1, V1>>), Request("GET", <<K1>>)>>
  /\ stream[1].split
  /\ stream[1].served = stream[1].all
  /\ stream[1].written = <<format_simple_string("OK"), format_bulk_string(V1)>>

====
